---- MODULE Spec2Model ----
(***************************************************************************)
(* Verification model of the rulial-navigator core: the totalistic CA      *)
(* engine (src/src/rulial/engine/totalistic.py) and the cellular sheaf     *)
(* analyzer (src/src/rulial/mapper/sheaf.py).                              *)
(*                                                                         *)
(* Grids are 0-based functions [0..h-1 -> [0..w-1 -> {0,1}]], as the numpy *)
(* arrays of the source.  Rule strings are sequences of one-character      *)
(* strings.                                                                *)
(***************************************************************************)
EXTENDS Integers, Sequences, FiniteSets, TLC

VARIABLES
    engine,      \* the Totalistic2DEngine object: [state, rule_str, born, survive]
    grid,        \* the caller's current grid (argument / result of step)
    prev_grid,   \* the grid that was passed to the last step call
    gen,         \* number of step calls made on grid
    sim,         \* the last simulate call: its arguments and its outcome
    np_rng,      \* state of numpy's global random generator
    analyzer,    \* the SheafAnalyzer objects: analyzer[a] holds the cache fields
    req,         \* the last call of an analyzer method: its arguments and outcome
    builds,      \* builds[shape]: how often the structures of that shape were built
    calls,       \* number of analyzer method calls made
    threads      \* threads[t]: a thread running analyzer[t].analyze(rule_str)

engineVars == <<engine, grid, prev_grid, gen, sim>>
sheafVars == <<analyzer, req, builds, calls>>
vars == <<engine, grid, prev_grid, gen, sim, np_rng, analyzer, req, builds, calls, threads>>

None == "None"

\* no grid (a variable that holds None where a grid is expected)
NoGrid == <<>>

----------------------------------------------------------------------------
(* Bounds of the model.                                                    *)

\* largest number of cells of a grid handed to step
MaxCells == 9
\* largest number of step calls in a row
MaxGen == 2
\* largest number of digits in the B part and in the S part of a rule string
MaxDigits == 2
\* largest number of cells of a grid asked of simulate
MaxSimCells == 6
\* largest steps argument of simulate
MaxSteps == 3
\* side of the torus the glider runs on
GliderSize == 6
\* largest steps argument of the glider run
GliderSteps == 5
\* largest side of a grid whose graph structures are requested
MaxDim == 4
\* largest number of _get_cached_structures calls on one analyzer
MaxCalls == 3
\* grid_size of the analyzers that run concurrently
AnalyzerGridSize == 3
\* steps of the analyzers that run concurrently
AnalyzerSteps == 2
\* largest number of cells of a grid whose Hodge decomposition is computed
MaxHodgeCells == 6
\* largest side of a grid whose graph structures are built and inspected
MaxBuildDim == 10
\* largest initial state of the random generator
MaxSeed == 0
\* largest length of a signal, and largest node count, of a Hodge
\* decomposition whose signal and graph differ in size
MaxSignalLen == 4
\* largest side of the grids whose structures two threads request from one
\* analyzer
MaxThreadDim == 2
\* largest length of the tape of a Turing machine state given to step or evolve
MaxTape == 3
\* largest number of outcomes of one (state, color) of a multiway rule
MaxOutcomes == 2
\* largest steps argument of evolve
MaxEvolveSteps == 2
\* side of the square grid the miner is given
MinerGridSize == 8

----------------------------------------------------------------------------
(* Rule strings and Totalistic2DEngine._parse_rule / __init__.             *)

DigitChars == {"0", "1", "2", "3", "4", "5", "6", "7", "8", "9"}

\* int(d) for a one-character string d; defined on DigitChars only
CharToInt(c) ==
    CASE c = "0" -> 0 [] c = "1" -> 1 [] c = "2" -> 2 [] c = "3" -> 3
      [] c = "4" -> 4 [] c = "5" -> 5 [] c = "6" -> 6 [] c = "7" -> 7
      [] c = "8" -> 8 [] c = "9" -> 9

\* str.upper() on one character (the characters the model uses)
UpperChar(c) ==
    CASE c = "b" -> "B" [] c = "s" -> "S" [] c = "x" -> "X" [] OTHER -> c

Upper(s) == [k \in 1..Len(s) |-> UpperChar(s[k])]

\* positions of "/" in s, and s.split("/") as a sequence of parts
RECURSIVE Split(_)
Split(s) ==
    IF \A k \in 1..Len(s) : s[k] # "/"
    THEN <<s>>
    ELSE LET p == CHOOSE k \in 1..Len(s) :
                      s[k] = "/" /\ \A q \in 1..(k - 1) : s[q] # "/"
         IN <<SubSeq(s, 1, p - 1)>> \o Split(SubSeq(s, p + 1, Len(s)))

StartsWith(p, c) == Len(p) >= 1 /\ p[1] = c

\* the characters of p[1:]
Tail1(p) == IF Len(p) = 0 THEN <<>> ELSE Tail(p)

\* the parts of the rule string that the loop reads digits from
ReadParts(rule_str) ==
    LET parts == Split(Upper(rule_str))
    IN {k \in 1..Len(parts) : StartsWith(parts[k], "B") \/ StartsWith(parts[k], "S")}

\* int(d) raises ValueError for a character that is no digit
ParseRaises(rule_str) ==
    LET parts == Split(Upper(rule_str))
    IN \E k \in ReadParts(rule_str) :
          \E q \in 1..Len(Tail1(parts[k])) : Tail1(parts[k])[q] \notin DigitChars

\* _parse_rule with an ordered collection in place of the sets: only the
\* leading digit of each part is kept
ParseRuleLeadingDigit(rule_str) ==
    LET parts == Split(Upper(rule_str))
        digits(c) == UNION {{CharToInt(Tail1(parts[k])[q]) : q \in (1..Len(Tail1(parts[k]))) \cap {1}}
                              : k \in {r \in 1..Len(parts) : StartsWith(parts[r], c)}}
    IN [born |-> digits("B"), survive |-> digits("S")]

\* _parse_rule: (born, survive) of a rule string on which int() does not raise
ParseRule(rule_str) ==
    LET parts == Split(Upper(rule_str))
        digits(c) == UNION {{CharToInt(Tail1(parts[k])[q]) : q \in 1..Len(Tail1(parts[k]))}
                              : k \in {r \in 1..Len(parts) : StartsWith(parts[r], c)}}
    IN [born |-> digits("B"), survive |-> digits("S")]

\* Totalistic2DEngine(rule_string): the constructed object, or the raised error
NewEngine(rule_str) ==
    IF ParseRaises(rule_str)
    THEN [state |-> "ValueError", rule_str |-> rule_str, born |-> {}, survive |-> {}]
    ELSE [state |-> "ok", rule_str |-> rule_str,
          born |-> ParseRule(rule_str).born, survive |-> ParseRule(rule_str).survive]

KernelWithCentre == <<<<1, 1, 1>>, <<1, 1, 1>>, <<1, 1, 1>>>>

\* self.kernel: the Moore neighbourhood kernel
Kernel == <<<<1, 1, 1>>, <<1, 0, 1>>, <<1, 1, 1>>>>

----------------------------------------------------------------------------
(* Grids and Totalistic2DEngine.step.                                      *)

Height(g) == Cardinality(DOMAIN g)
Width(g) == Cardinality(DOMAIN g[0])

Shapes(maxcells) ==
    {s \in (1..maxcells) \X (1..maxcells) : s[1] * s[2] <= maxcells}

GridsOfShape(h, w) == [0..(h - 1) -> [0..(w - 1) -> {0, 1}]]

Grids(maxcells) == UNION {GridsOfShape(s[1], s[2]) : s \in Shapes(maxcells)}

\* sum of the numbers of a sequence
RECURSIVE SumSeq(_)
SumSeq(s) == IF Len(s) = 0 THEN 0 ELSE Head(s) + SumSeq(Tail(s))

\* the kernel positions (a, b), a, b in 0..2, in row-major order
KernelPos(q) == <<(q - 1) \div 3, (q - 1) % 3>>

ConvolveNoWrap(g, k) ==
    LET h == Height(g)
        w == Width(g)
        at(i, j) == IF i \in 0..(h - 1) /\ j \in 0..(w - 1) THEN g[i][j] ELSE 0
        term(i, j, ab) == k[ab[1] + 1][ab[2] + 1] * at(i + 1 - ab[1], j + 1 - ab[2])
    IN [i \in 0..(h - 1) |-> [j \in 0..(w - 1) |->
           SumSeq([q \in 1..9 |-> term(i, j, KernelPos(q))])]]

\* scipy.signal.convolve2d(g, k, mode="same", boundary="wrap") for a 3x3 k:
\* out[i, j] = sum over (a, b) of k[a, b] * g[(i + 1 - a) mod h, (j + 1 - b) mod w]
Convolve2dSameWrap(g, k) ==
    LET h == Height(g)
        w == Width(g)
    IN [i \in 0..(h - 1) |-> [j \in 0..(w - 1) |->
           LET g0 == g[(i + 1) % h]
               g1 == g[i]
               g2 == g[(i - 1) % h]
               j0 == (j + 1) % w
               j2 == (j - 1) % w
           IN k[1][1] * g0[j0] + k[1][2] * g0[j] + k[1][3] * g0[j2]
              + k[2][1] * g1[j0] + k[2][2] * g1[j] + k[2][3] * g1[j2]
              + k[3][1] * g2[j0] + k[3][2] * g2[j] + k[3][3] * g2[j2]]]

\* Totalistic2DEngine.step
StepGrid(born, survive, g) ==
    LET neighbors == Convolve2dSameWrap(g, Kernel)
        is_alive(i, j) == g[i][j] = 1
        is_dead(i, j) == g[i][j] = 0
        born_mask(i, j) == neighbors[i][j] \in born /\ is_dead(i, j)
        survive_mask(i, j) == neighbors[i][j] \in survive /\ is_alive(i, j)
    IN [i \in DOMAIN g |-> [j \in DOMAIN g[i] |->
           IF born_mask(i, j) \/ survive_mask(i, j) THEN 1 ELSE 0]]

----------------------------------------------------------------------------
(* numpy's global random generator, Totalistic2DEngine.init_grid and       *)
(* Totalistic2DEngine.simulate.                                            *)

\* np.random.seed(seed): the generator state after seeding.  The generator
\* is abstracted as a full-period linear congruential generator modulo 16.
NpSeed(seed) == seed % 16

\* one draw: the next generator state; the uniform value drawn is state / 16
NpNext(x) == (5 * x + 3) % 16

\* the generator state after k draws
RECURSIVE NpAdvance(_, _)
NpAdvance(x, k) == IF k = 0 THEN x ELSE NpAdvance(NpNext(x), k - 1)

\* (np.random.random((h, w)) < density).astype(uint8), density in percent:
\* cell (i, j) takes draw number i * w + j + 1
RandomGrid(h, w, density, rng) ==
    [i \in 0..(h - 1) |-> [j \in 0..(w - 1) |->
        IF 100 * NpAdvance(rng, i * w + j + 1) < 16 * density THEN 1 ELSE 0]]

\* np.zeros((h, w)) with grid[0, 0] = 1
CornerDot(h, w) ==
    [i \in 0..(h - 1) |-> [j \in 0..(w - 1) |->
        IF i = 0 /\ j = 0 THEN 1 ELSE 0]]

\* np.zeros((h, w)) with grid[h // 2, w // 2] = 1
CenterDot(h, w) ==
    [i \in 0..(h - 1) |-> [j \in 0..(w - 1) |->
        IF i = h \div 2 /\ j = w \div 2 THEN 1 ELSE 0]]

\* init_grid: the grid returned and the generator state left behind
InitGrid(height, width, init_condition, density, custom_grid, rng) ==
    IF init_condition = "custom" /\ custom_grid # NoGrid
    THEN [grid |-> custom_grid, rng |-> rng]
    ELSE IF init_condition = "random"
    THEN [grid |-> RandomGrid(height, width, density, rng),
          rng |-> NpAdvance(rng, height * width)]
    ELSE [grid |-> CenterDot(height, width), rng |-> rng]

RECURSIVE SimLoopStale(_, _, _, _, _, _)
SimLoopStale(born, survive, history, current_grid, t, last) ==
    IF t > last THEN history
    ELSE LET next_grid == StepGrid(born, survive, current_grid)
         IN SimLoopStale(born, survive, Append(history, next_grid), current_grid, t + 1, last)

\* the loop "for t in range(1, last + 1)": history with history[t] filled in
RECURSIVE SimLoop(_, _, _, _, _, _)
SimLoop(born, survive, history, current_grid, t, last) ==
    IF t > last THEN history
    ELSE LET next_grid == StepGrid(born, survive, current_grid)
         IN SimLoop(born, survive, Append(history, next_grid), next_grid, t + 1, last)

SimulateOneMore(born, survive, height, width, steps, init_condition, density, custom_grid, rng) ==
    LET init == InitGrid(height, width, init_condition, density, custom_grid, rng)
    IN [result |-> "ok", rng |-> init.rng,
        history |-> SimLoop(born, survive, <<init.grid>>, init.grid, 1, steps)]

\* simulate: history is the sequence history[0], ..., history[steps - 1] of
\* the returned tensor (1-based here); history[0] = grid raises IndexError
\* when the tensor np.zeros((steps, height, width)) has no frame
Simulate(born, survive, height, width, steps, init_condition, density, custom_grid, rng) ==
    LET init == InitGrid(height, width, init_condition, density, custom_grid, rng)
    IN IF steps = 0
       THEN [result |-> "IndexError", rng |-> init.rng, history |-> <<>>]
       ELSE [result |-> "ok", rng |-> init.rng,
             history |-> SimLoop(born, survive, <<init.grid>>, init.grid, 1, steps - 1)]

----------------------------------------------------------------------------
(* SheafAnalyzer: the sparse graph operators of an h x w grid.  A sparse   *)
(* matrix is [shape |-> <<m, n>>, rows |-> r]: r[k] is the function from   *)
(* the columns of row k that hold a non-zero entry to that entry; rows are *)
(* indexed from 0 for node rows and from 1 (a sequence) for edge rows.     *)

\* the offsets (di, dj) of the loops "for di in [-1,0,1]: for dj in [-1,0,1]",
\* (0, 0) skipped
AdjOffsets == ({-1, 0, 1} \X {-1, 0, 1}) \ {<<0, 0>>}

\* the offsets of the coboundary loop, in its order
CobOffsets == <<<<0, 1>>, <<1, 0>>, <<1, 1>>, <<1, -1>>>>

\* nidx = ((i + di) % h) * w + ((j + dj) % w) for idx = i * w + j
NeighborIdx(h, w, idx, o) ==
    (((idx \div w) + o[1]) % h) * w + (((idx % w) + o[2]) % w)

\* _build_adjacency_sparse: csr_matrix sums the entries appended for the
\* same (row, col)
BuildAdjacencySparse(h, w) ==
    LET n == h * w
    IN [shape |-> <<n, n>>,
        rows |-> [idx \in 0..(n - 1) |->
            [c \in {NeighborIdx(h, w, idx, o) : o \in AdjOffsets} |->
                Cardinality({o \in AdjOffsets : NeighborIdx(h, w, idx, o) = c})]]]

\* sum of the values of a function with a finite domain
RECURSIVE SumFn(_)
SumFn(f) ==
    IF DOMAIN f = {} THEN 0
    ELSE LET c == CHOOSE x \in DOMAIN f : TRUE
         IN f[c] + SumFn([x \in DOMAIN f \ {c} |-> f[x]])

\* entry (r, c) of a sparse matrix
Entry(M, r, c) == IF c \in DOMAIN M.rows[r] THEN M.rows[r][c] ELSE 0

ComputeGraphLaplacianSignless(adj) ==
    [shape |-> adj.shape,
     rows |-> [r \in DOMAIN adj.rows |->
        LET row == adj.rows[r]
            degree == SumFn(row)
        IN [c \in DOMAIN row \cup {r} |->
               (IF c = r THEN degree ELSE 0) + (IF c \in DOMAIN row THEN row[c] ELSE 0)]]]

\* _compute_graph_laplacian_sparse: D - adj with D = diags(row sums of adj);
\* the sparse difference stores the non-zero entries
ComputeGraphLaplacianSparse(adj) ==
    [shape |-> adj.shape,
     rows |-> [r \in DOMAIN adj.rows |->
        LET row == adj.rows[r]
            degree == SumFn(row)
            val(c) == (IF c = r THEN degree ELSE 0) - (IF c \in DOMAIN row THEN row[c] ELSE 0)
        IN [c \in {x \in DOMAIN row \cup {r} : val(x) # 0} |-> val(c)]]]

\* the (idx, nidx) pairs the coboundary loop visits, in its order
CobCandidates(h, w) ==
    [k \in 1..(4 * h * w) |->
        <<(k - 1) \div 4, NeighborIdx(h, w, (k - 1) \div 4, CobOffsets[((k - 1) % 4) + 1])>>]

IsEmitted(e) == e[2] > e[1]

\* _build_coboundary_sparse: one row per emitted edge, -1 at idx, +1 at nidx
BuildCoboundarySparse(h, w) ==
    LET edges == SelectSeq(CobCandidates(h, w), IsEmitted)
    IN [shape |-> <<Len(edges), h * w>>,
        rows |-> [e \in 1..Len(edges) |-> (edges[e][1] :> -1) @@ (edges[e][2] :> 1)]]

\* size_key = h * 10000 + w
SizeKey(h, w) == h * 10000 + w

\* self._cached_size = None: a value no size key takes
NoKey == -1

\* self._cached_adj = None (and the other two): no matrix
NoMatrix == [shape |-> <<0, 0>>, rows |-> <<>>]

\* SheafAnalyzer.__init__: the cache fields
FreshAnalyzer ==
    [cached_size |-> NoKey, cached_adj |-> NoMatrix,
     cached_laplacian |-> NoMatrix, cached_delta0 |-> NoMatrix]

GetCachedStructuresKeepsOldKey(self, h, w) ==
    LET adj == BuildAdjacencySparse(h, w)
        after == [cached_size |-> self.cached_size, cached_adj |-> adj,
                  cached_laplacian |-> ComputeGraphLaplacianSparse(adj),
                  cached_delta0 |-> BuildCoboundarySparse(h, w)]
    IN [self |-> after, built |-> TRUE]

\* _get_cached_structures: the analyzer afterwards and whether the structures
\* were built in this call; the triple it returns is the three cache fields
\* of the analyzer afterwards
GetCachedStructures(self, h, w) ==
    LET size_key == SizeKey(h, w)
        adj == BuildAdjacencySparse(h, w)
        after == IF self.cached_size # size_key
                 THEN [cached_size |-> size_key, cached_adj |-> adj,
                       cached_laplacian |-> ComputeGraphLaplacianSparse(adj),
                       cached_delta0 |-> BuildCoboundarySparse(h, w)]
                 ELSE self
    IN [self |-> after, built |-> self.cached_size # size_key]

\* number of live cells of a grid: grid.sum()
RECURSIVE LiveCount(_)
LiveCount(g) ==
    IF DOMAIN g = {} THEN 0
    ELSE LET i == CHOOSE x \in DOMAIN g : TRUE
         IN SumFn(g[i]) + LiveCount([x \in DOMAIN g \ {i} |-> g[x]])

\* _compute_hodge_decomposition on the flattened 0/1 grid f of an h x w torus
\* with h * w >= 2 (a connected graph, whose Laplacian kernel is the constant
\* vectors): the square of harmonic_overlap as the fraction <<num, den>>.  A
\* zero signal returns overlap 0.0; otherwise the overlap is the norm of the
\* projection of f / |f| onto the kernel, whose square is
\* (sum f)^2 / (n * sum f^2) = live / n.
HarmonicOverlapSq(f_grid) ==
    LET n == Height(f_grid) * Width(f_grid)
        live == LiveCount(f_grid)
    IN IF live = 0 THEN <<0, 1>> ELSE <<live, n>>

\* default_simulator after np.random.seed(seed): the grid history[-1] of
\* engine.simulate(size, size, steps, "random", density=0.3), the generator
\* state left behind, and whether simulate raised
DefaultSimulatorRun(rule_str, size, steps, rng) ==
    LET e == NewEngine(rule_str)
        r == Simulate(e.born, e.survive, size, size, steps, "random", 30, NoGrid, rng)
    IN [result |-> r.result, rng |-> r.rng,
        grid |-> IF r.result = "ok" THEN r.history[Len(r.history)] ELSE NoGrid]

\* the part of analyze after the simulator returned grid: the SheafAnalysis
\* fields that the model computes.  n_nodes and n_edges are the shape of
\* delta0, from which h0_dim and h1_dim are estimated.
AnalyzeRecord(self_after, f_grid) ==
    [n_nodes |-> self_after.cached_delta0.shape[2],
     n_edges |-> self_after.cached_delta0.shape[1],
     harmonic_overlap_sq |-> HarmonicOverlapSq(f_grid)]

----------------------------------------------------------------------------
(* Floating-point values of the analysis.  A float is one of               *)
(*   [kind |-> "milli", v |-> i]        the decimal i / 1000               *)
(*   [kind |-> "tanh", num, den]        np.tanh(num / den) as a float64    *)
(*   [kind |-> "sqrt", num, den]        the square root of num / den       *)
(*   [kind |-> "nan"], [kind |-> "inf"] NaN and +infinity                  *)

Milli(v) == [kind |-> "milli", v |-> v]
TanhOf(num, den) == [kind |-> "tanh", num |-> num, den |-> den]
SqrtOf(num, den) == [kind |-> "sqrt", num |-> num, den |-> den]
NaN == [kind |-> "nan"]
Inf == [kind |-> "inf"]

\* atanh(0.5) = ln(3) / 2 = 0.549306..., in millionths
AtanhHalfMicro == 549306

\* x > c / 1000 as float comparison (False for NaN); for a tanh value c is
\* 500 or -500 and the comparison is that of the arguments, tanh being
\* increasing
GtMilli(x, c) ==
    CASE x.kind = "milli" -> x.v > c
      [] x.kind = "tanh" ->
            IF c >= 0 THEN 1000000 * x.num > AtanhHalfMicro * x.den
            ELSE 1000000 * x.num > (0 - AtanhHalfMicro) * x.den
      [] x.kind = "sqrt" -> c < 0 \/ 1000000 * x.num > c * c * x.den
      [] x.kind = "inf" -> TRUE
      [] x.kind = "nan" -> FALSE

\* x < c / 1000 as float comparison (False for NaN)
LtMilli(x, c) ==
    CASE x.kind = "milli" -> x.v < c
      [] x.kind = "tanh" ->
            IF c >= 0 THEN 1000000 * x.num < AtanhHalfMicro * x.den
            ELSE 1000000 * x.num < (0 - AtanhHalfMicro) * x.den
      [] x.kind = "sqrt" -> c > 0 /\ 1000000 * x.num < c * c * x.den
      [] x.kind = "inf" -> FALSE
      [] x.kind = "nan" -> FALSE

ClassifySheafOverlapFirst(monodromy, harmonic_overlap, spectral_gap) ==
    IF GtMilli(harmonic_overlap, 800) THEN "resonant-frozen"
    ELSE IF GtMilli(monodromy, 500) THEN "resonant-active"
    ELSE IF LtMilli(monodromy, -500) THEN "tense"
    ELSE "mixed"

\* _classify_sheaf with a label that looks at the spectral gap: a graph with
\* no positive eigenvalue is never resonant
ClassifySheafGapAware(monodromy, harmonic_overlap, spectral_gap) ==
    IF GtMilli(monodromy, 500) /\ spectral_gap.kind # "inf"
    THEN IF GtMilli(harmonic_overlap, 800)
         THEN "resonant-frozen"
         ELSE "resonant-active"
    ELSE IF LtMilli(monodromy, -500)
    THEN "tense"
    ELSE "mixed"

\* SheafAnalyzer._classify_sheaf
ClassifySheaf(monodromy, harmonic_overlap, spectral_gap) ==
    IF GtMilli(monodromy, 500)
    THEN IF GtMilli(harmonic_overlap, 800)
         THEN "resonant-frozen"
         ELSE "resonant-active"
    ELSE IF LtMilli(monodromy, -500)
    THEN "tense"
    ELSE "mixed"

\* the least 1000 * x from which the float64 nearest to tanh(x) is 1.0:
\* 1 - tanh(x) <= 2^-54 from x = 27.5 * ln 2 = 19.0616 on
TanhSaturationMilli == 19062

\* x == 1.0 as float comparison
IsOne(x) ==
    CASE x.kind = "milli" -> x.v = 1000
      [] x.kind = "tanh" -> 1000 * x.num >= TanhSaturationMilli * x.den
      [] x.kind = "sqrt" -> x.num = x.den
      [] OTHER -> FALSE
 
\* x == -1.0 as float comparison
IsMinusOne(x) ==
    CASE x.kind = "milli" -> x.v = -1000
      [] x.kind = "tanh" -> 1000 * (0 - x.num) >= TanhSaturationMilli * x.den
      [] OTHER -> FALSE

\* x == 0.0 as float comparison
IsZero(x) ==
    CASE x.kind = "milli" -> x.v = 0
      [] x.kind = "tanh" -> x.num = 0
      [] x.kind = "sqrt" -> x.num = 0
      [] OTHER -> FALSE

\* x > 0.0 and x < 0.0 as float comparisons
IsPositive(x) ==
    CASE x.kind = "milli" -> x.v > 0
      [] x.kind = "tanh" -> x.num > 0
      [] x.kind = "sqrt" -> x.num > 0
      [] x.kind = "inf" -> TRUE
      [] OTHER -> FALSE

IsNegative(x) ==
    CASE x.kind = "milli" -> x.v < 0
      [] x.kind = "tanh" -> x.num < 0
      [] OTHER -> FALSE

\* -1.0 <= x <= 1.0 as float comparison
InUnitBall(x) ==
    CASE x.kind = "milli" -> -1000 <= x.v /\ x.v <= 1000
      [] x.kind = "tanh" -> TRUE
      [] x.kind = "sqrt" -> x.num <= x.den
      [] OTHER -> FALSE

\* _compute_monodromy: grid_width, grid_height and steps
grid_width == 32
grid_height == 32
MonodromySteps == 10

\* cycle_grid: zeros with cycle_grid[grid_height // 2, :] = 1
CycleGrid ==
    [i \in 0..(grid_height - 1) |-> [j \in 0..(grid_width - 1) |->
        IF i = grid_height \div 2 THEN 1 ELSE 0]]

MonodromyIndexNoShift(initial_mass, final_mass) ==
    IF initial_mass = 0 THEN Milli(0)
    ELSE IF 10 * final_mass > 11 * initial_mass \/ 10 * final_mass < 9 * initial_mass
    THEN TanhOf(final_mass, initial_mass)
    ELSE Milli(0)

\* _compute_monodromy from "if initial_mass == 0" on: ratio = final_mass /
\* initial_mass is compared with 1.1 and 0.9 (exactly: the masses are
\* integers and no quotient lies between a bound and its float64), and
\* float(np.tanh(ratio - 1.0)) is tanh((final_mass - initial_mass) / initial_mass)
MonodromyIndex(initial_mass, final_mass) ==
    IF initial_mass = 0 THEN Milli(0)
    ELSE IF 10 * final_mass > 11 * initial_mass
    THEN TanhOf(final_mass - initial_mass, initial_mass)
    ELSE IF 10 * final_mass < 9 * initial_mass
    THEN TanhOf(final_mass - initial_mass, initial_mass)
    ELSE Milli(0)

\* SheafAnalyzer._compute_monodromy: the engine is built from rule_str
\* (ValueError propagates), the cycle grid is evolved by simulate and the
\* masses of the first and the last frame are compared
ComputeMonodromy(rule_str) ==
    LET e == NewEngine(rule_str)
    IN IF e.state # "ok"
       THEN [result |-> e.state]
       ELSE LET r == Simulate(e.born, e.survive, grid_width, grid_height,
                              MonodromySteps, "custom", 50, CycleGrid, 0)
                evolved_state == r.history[Len(r.history)]
                initial_mass == LiveCount(CycleGrid)
                final_mass == LiveCount(evolved_state)
            IN [result |-> "ok", n_frames |-> Len(r.history),
                initial_mass |-> initial_mass, final_mass |-> final_mass,
                monodromy |-> MonodromyIndex(initial_mass, final_mass)]

----------------------------------------------------------------------------
(* The sparse solvers (scipy.sparse.linalg.svds and eigsh) are inputs of   *)
(* the model: a call either raises or returns k values, and which values   *)
(* it returns is not decided by the model.                                 *)

Raised == [raised |-> TRUE, values |-> <<>>]
Returned(values) == [raised |-> FALSE, values |-> values]

\* the solver was not called
NotCalled == [raised |-> FALSE, values |-> <<>>, called |-> FALSE]

Min(a, b) == IF a < b THEN a ELSE b
Max(a, b) == IF a > b THEN a ELSE b

\* max(s) of a non-empty sequence of integers
RECURSIVE MaxSeq(_)
MaxSeq(s) == IF Len(s) = 1 THEN s[1] ELSE Max(s[1], MaxSeq(Tail(s)))

\* number of entries of s that satisfy s[i] > 1e-6 * top: for integers the
\* comparison s[i] * 10^6 > top is s[i] > top \div 10^6
CountAbove(s, top) == Cardinality({i \in 1..Len(s) : s[i] > top \div 1000000})

\* rank = n - 1, the Euler characteristic fallback
FallbackRankFull(n) == n
FallbackRank(n) == n - 1

\* h0 = max(1, n - rank); h1 = max(0, m - rank)
CohomologyDimsUnclamped(m, n, rank) == [h0 |-> n - rank, h1 |-> m - rank]
CohomologyDims(m, n, rank) == [h0 |-> Max(1, n - rank), h1 |-> Max(0, m - rank)]

\* the number of singular values asked of svds: k = min(50, min(m, n) - 2)
CohomologyK(m, n) == Min(50, Min(m, n) - 2)

\* SheafAnalyzer._compute_cohomology_sparse on a delta0 of shape (m, n);
\* svds is the outcome of svds(delta0, k=k, which="LM"), its values the
\* singular values s in any fixed unit.  tol = 1e-6 * max(s);
\* int(rank_estimate * min(m, n) / k) truncates a non-negative quotient.
ComputeCohomologySparse(delta0, svds) ==
    LET m == delta0.shape[1]
        n == delta0.shape[2]
        k == CohomologyK(m, n)
        rank == IF k > 0
                THEN IF svds.raised
                     THEN FallbackRank(n)
                     ELSE LET s == svds.values
                              rank_estimate == CountAbove(s, MaxSeq(s))
                          IN (rank_estimate * Min(m, n)) \div k
                ELSE FallbackRank(n)
    IN [result |-> "ok", rank |-> rank] @@ CohomologyDims(m, n, rank)

\* the ascending sequences of length k over the ascending sequence vals
RECURSIVE AscSeqs(_, _)
AscSeqs(vals, k) ==
    IF k = 0 THEN {<<>>}
    ELSE IF Len(vals) = 0 THEN {}
    ELSE UNION {{[i \in 1..c |-> Head(vals)] \o t : t \in AscSeqs(Tail(vals), k - c)} :
                   c \in 0..k}

\* singular values: zero, two small ones and one more than 10^6 times larger
SingularValues == <<0, 1, 2, 5000000>>

\* what svds can do when asked for k values
SvdsOutcomes(k) ==
    IF k > 0
    THEN {Raised} \cup {Returned(s) : s \in AscSeqs(SingularValues, k)}
    ELSE {NotCalled}

\* a float given in millionths: the decimal v / 1000000
Micro(v) == [kind |-> "micro", v |-> v]

\* the sum of the reciprocals of a sequence of floats given in millionths
SumOfReciprocals(terms) == [kind |-> "sum_inv", terms |-> terms]

\* np.abs of a sequence of integers
AbsSeq(s) == [i \in 1..Len(s) |-> IF s[i] < 0 THEN 0 - s[i] ELSE s[i]]

\* s with its entry at position p removed
RemoveAt(s, p) == [i \in 1..(Len(s) - 1) |-> IF i < p THEN s[i] ELSE s[i + 1]]

\* np.sort of a sequence of integers
RECURSIVE NpSort(_)
NpSort(s) ==
    IF Len(s) = 0 THEN <<>>
    ELSE LET p == CHOOSE i \in 1..Len(s) : \A j \in 1..Len(s) : s[i] <= s[j]
         IN <<s[p]>> \o NpSort(RemoveAt(s, p))

\* tol = 1e-6, in millionths
AboveTol(v) == v > 1

\* the number of eigenvalues asked of eigsh: k = min(k, n - 2) with k = 10
SpectralK(n) == Min(10, n - 2)

\* the fallback of the except branch: spectral_gap = 0.2,
\* effective_resistance = 100.0, eigenvalues = [0.0, 0.2]
SpectralFallback ==
    [spectral_gap |-> Micro(200000), effective_resistance |-> Micro(100000000),
     eigenvalues |-> <<0, 200000>>]

\* SheafAnalyzer._compute_spectral_properties_sparse on a Laplacian L; eigsh
\* is the outcome of eigsh(L, k=k, which="SM"), its values the eigenvalues in
\* millionths
ComputeSpectralPropertiesSparse(L, eigsh) ==
    IF eigsh.raised
    THEN SpectralFallback
    ELSE LET eigenvalues == NpSort(AbsSeq(eigsh.values))
             nonzero_eigs == SelectSeq(eigenvalues, AboveTol)
         IN [spectral_gap |-> IF Len(nonzero_eigs) > 0
                              THEN Micro(nonzero_eigs[1]) ELSE Micro(0),
             effective_resistance |-> IF Len(nonzero_eigs) > 0
                                      THEN SumOfReciprocals(nonzero_eigs) ELSE Inf,
             eigenvalues |-> eigenvalues]

\* eigenvalues in millionths: a negative one, zero, one at the tolerance and
\* a large one
EigenValues == <<-2000000, 0, 1, 2000000>>

\* what eigsh can do when asked for k eigenvalues: it raises ValueError for
\* k <= 0, and for k > 0 it returns k values or raises (no convergence)
EigshOutcomes(k) ==
    IF k > 0
    THEN {Raised} \cup {Returned(s) : s \in AscSeqs(EigenValues, k)}
    ELSE {Raised}

----------------------------------------------------------------------------
(* The Hodge decomposition.  Vectors are functions on 0..n-1.  An          *)
(* eigenvector returned by eigsh is given by an integer direction a, the   *)
(* unit vector being a / |a|; the eigenvectors of one call are mutually    *)
(* orthogonal.  Norms are kept as square roots of fractions.               *)

\* grid.flatten(): row-major
Flatten(g) ==
    LET w == Width(g)
    IN [idx \in 0..(Height(g) * w - 1) |-> g[idx \div w][idx % w]]

\* np.dot
Dot(a, b) == SumFn([i \in DOMAIN a |-> a[i] * b[i]])

RECURSIVE Gcd(_, _)
Gcd(a, b) == IF b = 0 THEN a ELSE Gcd(b, a % b)

\* least common multiple of the squared lengths of a sequence of directions
RECURSIVE LcmNormSq(_)
LcmNormSq(vecs) ==
    IF Len(vecs) = 0 THEN 1
    ELSE LET a == Dot(vecs[1], vecs[1])
             b == LcmNormSq(Tail(vecs))
         IN (a * b) \div Gcd(a, b)

\* the elements of a set of integers in ascending order
RECURSIVE AscSeqOf(_)
AscSeqOf(S) ==
    IF S = {} THEN <<>>
    ELSE LET lo == CHOOSE x \in S : \A y \in S : x <= y
         IN <<lo>> \o AscSeqOf(S \ {lo})

\* eigenvecs[:, kernel_mask] with kernel_mask = np.abs(eigenvals) < 1e-6,
\* eigenvalues in millionths
KernelVecs(eigenvals, eigenvecs) ==
    LET at == AscSeqOf({j \in 1..Len(eigenvals) :
                           (IF eigenvals[j] < 0 THEN 0 - eigenvals[j] ELSE eigenvals[j]) < 1})
    IN [q \in 1..Len(at) |-> eigenvecs[at[q]]]

ProjectionNotNormalised(f, vecs, D) ==
    [i \in DOMAIN f |->
        SumSeq([j \in 1..Len(vecs) |-> vecs[j][i] * Dot(vecs[j], f) * D])]

\* D times kernel_vecs @ (kernel_vecs.T @ f) for the unit vectors of the
\* directions vecs, D a common multiple of their squared lengths
Projection(f, vecs, D) ==
    [i \in DOMAIN f |->
        SumSeq([j \in 1..Len(vecs) |->
                   vecs[j][i] * Dot(vecs[j], f) * (D \div Dot(vecs[j], vecs[j]))])]

\* the number of eigenvalues asked of eigsh: k = min(10, n - 2)
HodgeK(n) == Min(10, n - 2)

\* f[-n:] padded with zeros: the last n entries of f where the code keeps
\* the first n
ResizeSignalKeepTail(f, n) ==
    LET len == Cardinality(DOMAIN f)
    IN [i \in 0..(n - 1) |->
           IF len > n THEN f[i + len - n] ELSE IF i < len THEN f[i] ELSE 0]

\* the resize of f to the n nodes of L: f[:n] when f is longer,
\* np.pad(f, (0, n - len(f))) when it is shorter
ResizeSignal(f, n) ==
    [i \in 0..(n - 1) |-> IF i < Cardinality(DOMAIN f) THEN f[i] ELSE 0]

\* SheafAnalyzer._compute_hodge_decomposition on a flattened signal f0, resized
\* to the n nodes of L when the lengths differ; eigsh is the outcome of
\* eigsh(L, k=k, which="SM", tol=1e-4), and eigsh_called says whether the
\* call was reached.  With s = |f|, f_normalized = f / s;
\* f_harmonic = F / (D * s) and f_gradient = (D * f - F) / (D * s) for the
\* integer vector F = Projection(f, chosen, D).
\* The except branch assigns f_mean and f_harmonic only, so the return
\* statement after it reads the unassigned harmonic_overlap.
ComputeHodgeDecomposition(f0, L, eigsh) ==
    LET n == L.shape[1]
        f == ResizeSignal(f0, n)
        norm_sq == Dot(f, f)
        total == SumFn(f)
        k == HodgeK(n)
    IN IF norm_sq = 0
       THEN [result |-> "ok", path |-> "zero-signal", eigsh_called |-> FALSE,
             harmonic_overlap |-> Milli(0), gradient_norm |-> Milli(0)]
       ELSE IF k < 1
       THEN \* f_mean = total / (n * s); overlap = |f_normalized . (f_mean / sqrt(n))|
            LET num == total * total * total * total
                den == norm_sq * norm_sq * n * n * n
            IN [result |-> "ok", path |-> "small-graph", eigsh_called |-> FALSE,
                harmonic_overlap |-> SqrtOf(num, den),
                gradient_norm |-> IF num > den THEN NaN ELSE SqrtOf(den - num, den)]
       ELSE IF eigsh.raised
       THEN [result |-> "UnboundLocalError", path |-> "except", eigsh_called |-> TRUE]
       ELSE LET kernel_vecs == KernelVecs(eigsh.values, eigsh.vecs)
                chosen == IF Len(kernel_vecs) > 0 THEN kernel_vecs ELSE <<eigsh.vecs[1]>>
                D == LcmNormSq(chosen)
                F == Projection(f, chosen, D)
                den == D * D * norm_sq
                f_gradient == [i \in DOMAIN f |-> D * f[i] - F[i]]
            IN IF Dot(F, F) = 0
               THEN [result |-> "ok", path |-> "zero-projection", eigsh_called |-> TRUE,
                     harmonic_overlap |-> Milli(0), gradient_norm |-> Milli(1000)]
               ELSE [result |-> "ok", eigsh_called |-> TRUE,
                     path |-> IF Len(kernel_vecs) > 0 THEN "kernel-projection"
                              ELSE "smallest-eigenvector",
                     harmonic_overlap |-> SqrtOf(Dot(F, F), den),
                     gradient_norm |-> SqrtOf(Dot(f_gradient, f_gradient), den)]

\* mutually orthogonal directions of n-space: the constant vector (j = 0)
\* and, for j >= 1, j ones followed by -j
OrthogonalDirection(n, j) ==
    [i \in 0..(n - 1) |-> IF j = 0 \/ i < j THEN 1 ELSE IF i = j THEN 0 - j ELSE 0]

\* eigenvalues in millionths: zero, one that eigsh's tol = 1e-4 leaves above
\* the kernel threshold, and a large one
HodgeEigenValues == <<0, 5, 9000000>>

\* what eigsh can do when asked for k eigenpairs of an n x n Laplacian: raise,
\* or return k ascending values with k mutually orthogonal unit vectors, the
\* first of which is the constant vector or not
HodgeEigshOutcomes(n, k) ==
    IF k >= 1
    THEN {Raised} \cup
         {[raised |-> FALSE, values |-> s,
           vecs |-> [j \in 1..k |-> OrthogonalDirection(n, j - 1 + o)]] :
              s \in AscSeqs(HodgeEigenValues, k), o \in {0, 1}}
    ELSE {NotCalled}

\* the three builder calls of _get_cached_structures
BuildStructures(h, w) ==
    LET adj == BuildAdjacencySparse(h, w)
    IN [adj |-> adj,
        laplacian |-> ComputeGraphLaplacianSparse(adj),
        delta0 |-> BuildCoboundarySparse(h, w)]

----------------------------------------------------------------------------
(* SheafAnalyzer.analyze as a whole.                                       *)

\* SheafAnalyzer.analyze(rule_str) on an analyzer built with grid_size and
\* steps and the default simulator, the three solver calls behaving as svds,
\* eigsh_spectral and eigsh_hodge say: the analyzer and the generator
\* afterwards, the grid the simulator returned, and the SheafAnalysis record
\* or the exception that leaves analyze
Analyze(self, grid_size, steps, rule_str, svds, eigsh_spectral, eigsh_hodge) ==
    LET seeded == NpSeed(42)
        e == NewEngine(rule_str)
        run == DefaultSimulatorRun(rule_str, grid_size, steps, seeded)
    IN IF e.state # "ok"
       THEN [result |-> e.state, self |-> self, rng |-> seeded, grid |-> NoGrid]
       ELSE IF run.result # "ok"
       THEN [result |-> run.result, self |-> self, rng |-> run.rng, grid |-> NoGrid]
       ELSE LET h == Height(run.grid)
                w == Width(run.grid)
                after == GetCachedStructures(self, h, w).self
                L == after.cached_laplacian
                cohomology == ComputeCohomologySparse(after.cached_delta0, svds)
                spectral == ComputeSpectralPropertiesSparse(L, eigsh_spectral)
                hodge == ComputeHodgeDecomposition(Flatten(run.grid), L, eigsh_hodge)
            IN IF hodge.result # "ok"
               THEN [result |-> hodge.result, self |-> after, rng |-> run.rng,
                     grid |-> run.grid]
               ELSE LET monodromy == ComputeMonodromy(rule_str).monodromy
                    IN [result |-> "ok", self |-> after, rng |-> run.rng,
                        grid |-> run.grid,
                        record |->
                          [h0_dim |-> cohomology.h0,
                           h1_dim |-> cohomology.h1,
                           spectral_gap |-> spectral.spectral_gap,
                           effective_resistance |-> spectral.effective_resistance,
                           harmonic_overlap |-> hodge.harmonic_overlap,
                           gradient_norm |-> hodge.gradient_norm,
                           monodromy_index |-> monodromy,
                           sheaf_type |-> ClassifySheaf(monodromy, hodge.harmonic_overlap,
                                                        spectral.spectral_gap)]]

\* outcomes of the three solver calls of one analysis: each solver raises or
\* returns the values of an accurate run (all singular values significant;
\* one zero eigenvalue, with the constant eigenvector)
AnalyzeSvdsOutcomes(k) ==
    IF k > 0 THEN {Raised, Returned([i \in 1..k |-> 5000000])} ELSE {NotCalled}

AnalyzeEigshOutcomes(k) ==
    IF k > 0 THEN {Raised, Returned([i \in 1..k |-> IF i = 1 THEN 0 ELSE 2000000])}
    ELSE {Raised}

AnalyzeHodgeOutcomes(n, k) ==
    IF k >= 1
    THEN {Raised,
          [raised |-> FALSE, values |-> [i \in 1..k |-> IF i = 1 THEN 0 ELSE 9000000],
           vecs |-> [j \in 1..k |-> OrthogonalDirection(n, j - 1)]]}
    ELSE {NotCalled}

----------------------------------------------------------------------------
(* numpy arrays as objects.  The arrays that exist are numbered in order   *)
(* of creation; heap[id] is the content of array id.  The history tensor   *)
(* owns its storage: history[k] is frame k - 1 of the tensor.              *)

\* the array a call allocates
NewArray(heap) == Len(heap) + 1

\* heap after array id takes the content v (a new array is appended)
WriteArray(heap, id, v) ==
    IF id = NewArray(heap) THEN Append(heap, v) ELSE [heap EXCEPT ![id] = v]

\* the array init_grid returns: custom_grid.copy(), the astype(np.uint8) of
\* the random draw, or np.zeros(...) with the centre dot; custom_grid is the
\* number of the array passed, 0 when none is
InitGridResult(heap, custom_grid) == NewArray(heap)

\* step writing the next generation into the array it was passed
StepResultInPlace(heap, grid_id) == grid_id

\* the array step returns: (born_mask | survive_mask).astype(np.uint8)
StepResult(heap, grid_id) == NewArray(heap)

\* history[t] = g written to every frame up to t
StoreFrameUpTo(history, t, g) ==
    [k \in 1..Len(history) |-> IF k <= t + 1 THEN g ELSE history[k]]

\* history[t] = g: frame t (counted from 0) takes the values of g
StoreFrame(history, t, g) == [history EXCEPT ![t + 1] = g]

\* np.zeros((steps, height, width), dtype=np.uint8)
ZeroTensor(steps, height, width) ==
    [k \in 1..steps |-> [i \in 0..(height - 1) |-> [j \in 0..(width - 1) |-> 0]]]

----------------------------------------------------------------------------
(* MultiwayTuringSystem: Turing machine configurations up to translation.  *)
(* A TMState is [tape, head_pos, state] with the tape tuple as a sequence  *)
(* (tape[i + 1] is the tuple's entry i); a rule is the transitions dict, a *)
(* function from <<state, color>> to the sequence of its outcomes          *)
(* <<write_color, move_dir, new_state>>.                                   *)

TMState(tape, head_pos, state) == [tape |-> tape, head_pos |-> head_pos, state |-> state]

\* {i: val for i, val in enumerate(state.tape)}
TapeDict(tape) == [i \in 0..(Len(tape) - 1) |-> tape[i + 1]]

\* tape_dict.get(i, 0)
DictGet(tape_dict, i) == IF i \in DOMAIN tape_dict THEN tape_dict[i] ELSE 0

\* the least and the greatest number of a non-empty finite set of integers
MinOf(S) == CHOOSE x \in S : \A y \in S : x <= y
MaxOf(S) == CHOOSE x \in S : \A y \in S : x >= y

\* _make_state with the slice taken over the non-zero cells only, the head
\* not counted in
MakeStateKeysOnly(tape_dict, head, state) ==
    LET keys == {k \in DOMAIN tape_dict : tape_dict[k] # 0}
    IN IF keys = {}
       THEN TMState(<<>>, 0, state)
       ELSE LET full_min == MinOf(keys)
                full_max == MaxOf(keys)
            IN TMState([i \in 1..(full_max - full_min + 1) |->
                           DictGet(tape_dict, full_min + i - 1)],
                       head - full_min, state)

\* MultiwayTuringSystem._make_state
MakeState(tape_dict, head, state) ==
    LET keys == {k \in DOMAIN tape_dict : tape_dict[k] # 0}
    IN IF keys = {}
       THEN TMState(<<>>, 0, state)
       ELSE LET min_k == MinOf(keys)
                max_k == MaxOf(keys)
                full_min == Min(min_k, head)
                full_max == Max(max_k, head)
                canonical_tape == [i \in 1..(full_max - full_min + 1) |->
                                      DictGet(tape_dict, full_min + i - 1)]
            IN TMState(canonical_tape, head - full_min, state)

\* self.rule.transitions.get((current_state, current_color), [])
Outcomes(rule, current_state, current_color) ==
    IF <<current_state, current_color>> \in DOMAIN rule
    THEN rule[<<current_state, current_color>>] ELSE <<>>

\* new_tape_dict = tape_dict.copy(); new_tape_dict[current_head] = write_color
WriteCell(tape_dict, current_head, write_color) ==
    [k \in DOMAIN tape_dict \cup {current_head} |->
        IF k = current_head THEN write_color ELSE tape_dict[k]]

\* MultiwayTuringSystem.step: the list of next states, one per outcome
StepTM(rule, state) ==
    LET tape_dict == TapeDict(state.tape)
        current_head == state.head_pos
        current_color == DictGet(tape_dict, current_head)
        outcomes == Outcomes(rule, state.state, current_color)
    IN [q \in 1..Len(outcomes) |->
           MakeState(WriteCell(tape_dict, current_head, outcomes[q][1]),
                     current_head + outcomes[q][2], outcomes[q][3])]

\* the elements of a sequence
Elements(s) == {s[k] : k \in 1..Len(s)}

\* list(S): the elements of the set S once each, in the set's iteration order
RECURSIVE ListOf(_)
ListOf(S) ==
    IF S = {} THEN <<>>
    ELSE LET x == CHOOSE y \in S : TRUE IN <<x>> \o ListOf(S \ {x})

\* TuringMachineRule.from_wolfram_code for (num_states, num_colors): the
\* digits of code in base num_colors * 2 * num_states, least significant
\* first, decode the outcome of (s, c) in the order of the inputs list
RECURSIVE Power(_, _)
Power(b, n) == IF n = 0 THEN 1 ELSE b * Power(b, n - 1)

FromWolframCode(code, num_states, num_colors) ==
    LET base == num_colors * 2 * num_states
    IN [sc \in (0..(num_states - 1)) \X (0..(num_colors - 1)) |->
           LET position == sc[1] * num_colors + sc[2]
               op_code == (code \div Power(base, position)) % base
               write_color == op_code % num_colors
               dir_bit == (op_code \div num_colors) % 2
               move_dir == IF dir_bit = 1 THEN 1 ELSE -1
               new_state == (op_code \div (num_colors * 2)) % num_states
           IN <<<<write_color, move_dir, new_state>>>>]

----------------------------------------------------------------------------
(* ParticleMiner: components of the last frame, traced back through the    *)
(* history.  found_particles, an insertion-ordered dict, is the sequence   *)
(* of its values; each Particle carries the key it is stored under.        *)

\* the positions <<row, column>> of the non-zero cells of a frame
Pixels(frame) ==
    {rc \in (DOMAIN frame) \X (DOMAIN frame[0]) : frame[rc[1]][rc[2]] # 0}

\* structure = np.ones((3, 3)): two different cells touch, diagonals included
Touch(a, b) ==
    /\ a # b
    /\ a[1] - b[1] \in {-1, 0, 1}
    /\ a[2] - b[2] \in {-1, 0, 1}

\* the connected component of comp within cells
RECURSIVE Grow(_, _)
Grow(cells, comp) ==
    LET next == comp \cup {c \in cells : \E d \in comp : Touch(c, d)}
    IN IF next = comp THEN comp ELSE Grow(cells, next)

\* the first cell of a non-empty set in raster order
FirstPixel(cells) ==
    CHOOSE a \in cells :
        \A b \in cells : a[1] < b[1] \/ (a[1] = b[1] /\ a[2] <= b[2])

\* scipy.ndimage.label(frame, structure): the components, numbered in raster
\* order of their first cell; no wrap-around
RECURSIVE LabelCells(_)
LabelCells(cells) ==
    IF cells = {} THEN <<>>
    ELSE LET comp == Grow(cells, {FirstPixel(cells)})
         IN <<comp>> \o LabelCells(cells \ comp)

Label(frame) == LabelCells(Pixels(frame))

\* the bounding box of a component and the blob cropped to it
BoundingBox(comp) ==
    [rmin |-> MinOf({a[1] : a \in comp}), rmax |-> MaxOf({a[1] : a \in comp}),
     cmin |-> MinOf({a[2] : a \in comp}), cmax |-> MaxOf({a[2] : a \in comp})]

CropPattern(frame, comp) ==
    LET box == BoundingBox(comp)
    IN [i \in 0..(box.rmax - box.rmin) |-> [j \in 0..(box.cmax - box.cmin) |->
           IF <<box.rmin + i, box.cmin + j>> \in comp
           THEN frame[box.rmin + i][box.cmin + j] ELSE 0]]

\* pattern.tobytes(): the cells in row-major order, the shape not included
ToBytes(pattern) ==
    [q \in 1..(Height(pattern) * Width(pattern)) |->
        pattern[(q - 1) \div Width(pattern)][(q - 1) % Width(pattern)]]

\* grid[r : r + ph, c : c + pw] equals pattern
SubgridEquals(g, r, c, pattern) ==
    \A i \in DOMAIN pattern : \A j \in DOMAIN pattern[i] :
        g[r + i][c + j] = pattern[i][j]

NoMatch == [match_found |-> FALSE, dx |-> 0, dy |-> 0]

\* _find_pattern_in_grid: the first match of the raster scan of the window
FindPatternInGrid(pattern, g, r_orig, c_orig, dt) ==
    LET ph == Height(pattern)
        pw == Width(pattern)
        gh == Height(g)
        gw == Width(g)
        r_start == Max(0, r_orig - dt)
        r_end == Min(gh - ph, r_orig + dt)
        c_start == Max(0, c_orig - dt)
        c_end == Min(gw - pw, c_orig + dt)
        matches == {rc \in (r_start..r_end) \X (c_start..c_end) :
                       SubgridEquals(g, rc[1], rc[2], pattern)}
    IN IF matches = {} THEN NoMatch
       ELSE LET rc == FirstPixel(matches)
            IN [match_found |-> TRUE, dx |-> c_orig - rc[2], dy |-> r_orig - rc[1]]

\* check_depth of _analyze_history
check_depth == 20

\* the loop "for p in range(1, check_depth)" of one component: the least p
\* with prev_idx = steps - 1 - p >= 0 at which the pattern is found in
\* history[prev_idx], and the displacement found there
TraceBack(pattern, history, steps, rmin, cmin) ==
    LET found(p) == FindPatternInGrid(pattern, history[steps - 1 - p + 1], rmin, cmin, p)
        ps == {p \in 1..(check_depth - 1) :
                  steps - 1 - p >= 0 /\ found(p).match_found}
    IN IF ps = {} THEN [match_found |-> FALSE, period |-> 0, dx |-> 0, dy |-> 0]
       ELSE LET p == MinOf(ps)
            IN [match_found |-> TRUE, period |-> p, dx |-> found(p).dx, dy |-> found(p).dy]

Abs(x) == IF x < 0 THEN 0 - x ELSE x

\* the name _register_particle gives: the text before the numbers and the
\* numbers formatted into it
ParticleName(period, dx, dy) ==
    IF dx # 0 \/ dy # 0
    THEN IF period = 4 /\ Abs(dx) = 1 /\ Abs(dy) = 1
         THEN [text |-> "Glider", args |-> <<>>]
         ELSE [text |-> "Spaceship (P, v=(,))", args |-> <<period, dx, dy>>]
    ELSE IF period > 1
    THEN [text |-> "Oscillator (P)", args |-> <<period>>]
    ELSE [text |-> "Still Life", args |-> <<>>]

\* _register_particle: key = hash(pattern.tobytes()); stored if the key is new
RegisterParticle(found_particles, rule_str, pattern, period, dx, dy) ==
    IF \E q \in 1..Len(found_particles) : found_particles[q].key = ToBytes(pattern)
    THEN found_particles
    ELSE Append(found_particles,
                [key |-> ToBytes(pattern), rule_str |-> rule_str, pattern |-> pattern,
                 period |-> period, dx |-> dx, dy |-> dy,
                 name |-> ParticleName(period, dx, dy)])

\* the body of "for component_id in range(1, num_features + 1)" for the
\* components from number component_id on
RECURSIVE AnalyzeComponents(_, _, _, _, _, _)
AnalyzeComponents(found_particles, rule_str, history, steps, components, component_id) ==
    IF component_id > Len(components) THEN found_particles
    ELSE LET last_frame == history[Len(history)]
             comp == components[component_id]
             box == BoundingBox(comp)
             pattern_t0 == CropPattern(last_frame, comp)
             trace == TraceBack(pattern_t0, history, steps, box.rmin, box.cmin)
             after == IF Height(pattern_t0) * Width(pattern_t0) > 100
                         \/ ~trace.match_found
                      THEN found_particles
                      ELSE RegisterParticle(found_particles, rule_str, pattern_t0,
                                            trace.period, trace.dx, trace.dy)
         IN AnalyzeComponents(after, rule_str, history, steps, components, component_id + 1)

\* _analyze_history: found_particles afterwards
AnalyzeHistory(found_particles, rule_str, history, steps) ==
    LET components == Label(history[Len(history)])
        num_features == Len(components)
    IN IF num_features = 0 \/ num_features > 50
       THEN found_particles
       ELSE AnalyzeComponents(found_particles, rule_str, history, steps, components, 1)

\* ParticleMiner(rule_str).mine_grid(g, steps) on a miner that has found
\* found_particles so far: the history simulated and found_particles
\* afterwards, whose values are the list returned
MineGrid(found_particles, rule_str, g, steps) ==
    LET e == NewEngine(rule_str)
        r == Simulate(e.born, e.survive, Height(g), Width(g), steps,
                      "custom", 50, g, 0)
    IN IF r.result # "ok"
       THEN [result |-> r.result, history |-> <<>>, found_particles |-> found_particles]
       ELSE [result |-> "ok", history |-> r.history,
             found_particles |-> AnalyzeHistory(found_particles, rule_str, r.history, steps)]

----------------------------------------------------------------------------
(* Actions.                                                                *)

NoSim == [op |-> None]

NoReq == [op |-> None]

\* no analyzer exists
NoSheaf ==
    /\ analyzer = <<>>
    /\ req = NoReq
    /\ builds = <<>>
    /\ calls = 0
    /\ threads = <<>>

\* engine = Totalistic2DEngine(rule_str)
New(rule_str) ==
    /\ engine.state = "unbuilt"
    /\ engine' = NewEngine(rule_str)
    /\ UNCHANGED <<grid, prev_grid, gen, sim, np_rng, sheafVars, threads>>

\* a step whose result depends on the call before it: from the second call
\* on, the grid passed to the previous call is stepped again
StepFromEarlierCall ==
    /\ engine.state = "ok"
    /\ grid # NoGrid
    /\ gen < MaxGen
    /\ prev_grid' = grid
    /\ grid' = StepGrid(engine.born, engine.survive,
                        IF gen = 0 THEN grid ELSE prev_grid)
    /\ gen' = gen + 1
    /\ UNCHANGED <<engine, sim, np_rng, sheafVars, threads>>

\* grid = engine.step(grid)
Step ==
    /\ engine.state = "ok"
    /\ grid # NoGrid
    /\ gen < MaxGen
    /\ prev_grid' = grid
    /\ grid' = StepGrid(engine.born, engine.survive, grid)
    /\ gen' = gen + 1
    /\ UNCHANGED <<engine, sim, np_rng, sheafVars, threads>>

\* history = engine.simulate(height, width, steps, init_condition, density,
\* custom_grid), with a custom grid of the shape asked for, as every caller passes
CallSimulate(height, width, steps, init_condition, density, custom_grid) ==
    /\ engine.state = "ok"
    /\ sim.op = None
    /\ custom_grid # NoGrid => Height(custom_grid) = height /\ Width(custom_grid) = width
    /\ LET r == Simulate(engine.born, engine.survive, height, width, steps,
                         init_condition, density, custom_grid, np_rng)
       IN /\ sim' = [op |-> "simulate", height |-> height, width |-> width,
                     steps |-> steps, init_condition |-> init_condition,
                     density |-> density, custom_grid |-> custom_grid,
                     rng_before |-> np_rng, result |-> r.result,
                     history |-> r.history]
          /\ np_rng' = r.rng
    /\ UNCHANGED <<engine, grid, prev_grid, gen, sheafVars, threads>>

\* adj, L, delta0 = analyzer[a]._get_cached_structures(h, w)
CallGetCachedStructures(a, h, w) ==
    /\ a \in DOMAIN analyzer
    /\ calls < MaxCalls
    /\ LET r == GetCachedStructures(analyzer[a], h, w)
       IN /\ analyzer' = [analyzer EXCEPT ![a] = r.self]
          /\ req' = [op |-> "get", a |-> a, h |-> h, w |-> w]
          /\ builds' = IF r.built
                       THEN [builds EXCEPT ![<<h, w>>] = @ + 1]
                       ELSE builds
    /\ calls' = calls + 1
    /\ UNCHANGED <<engineVars, np_rng, threads>>

\* thread t enters analyze -> default_simulator: np.random.seed(seed), seed=42
ThreadSeed(t) ==
    /\ threads[t].pc = "start"
    /\ np_rng' = NpSeed(42)
    /\ threads' = [threads EXCEPT ![t].pc = "seeded"]
    /\ UNCHANGED <<engineVars, sheafVars>>

\* thread t: engine = Totalistic2DEngine(rule_str); engine.simulate(...) draws
\* the start grid from the global generator and steps it; history[-1]
ThreadSimulate(t) ==
    /\ threads[t].pc = "seeded"
    /\ LET r == DefaultSimulatorRun(threads[t].rule_str, threads[t].grid_size,
                                    threads[t].steps, np_rng)
       IN /\ np_rng' = r.rng
          /\ threads' = [threads EXCEPT
                ![t].pc = IF r.result = "ok" THEN "simulated" ELSE r.result,
                ![t].grid = r.grid]
    /\ UNCHANGED <<engineVars, sheafVars>>

\* thread t: the rest of analyze, on its own analyzer: the cached structures
\* of the grid's shape and the record
ThreadFinish(t) ==
    /\ threads[t].pc = "simulated"
    /\ LET g == threads[t].grid
           c == GetCachedStructures(analyzer[t], Height(g), Width(g))
       IN /\ analyzer' = [analyzer EXCEPT ![t] = c.self]
          /\ threads' = [threads EXCEPT
                ![t].pc = "done",
                ![t].record = AnalyzeRecord(c.self, g)]
    /\ UNCHANGED <<engineVars, np_rng, req, builds, calls>>

\* label = analyzer._classify_sheaf(monodromy, harmonic_overlap, spectral_gap)
CallClassifySheaf(monodromy, harmonic_overlap, spectral_gap) ==
    /\ calls < MaxCalls
    /\ req' = [op |-> "classify", monodromy |-> monodromy,
               harmonic_overlap |-> harmonic_overlap, spectral_gap |-> spectral_gap,
               label |-> ClassifySheaf(monodromy, harmonic_overlap, spectral_gap)]
    /\ calls' = calls + 1
    /\ UNCHANGED <<engineVars, np_rng, analyzer, builds, threads>>

\* monodromy = analyzer._compute_monodromy(rule_str, analyzer.simulator)
CallComputeMonodromy(rule_str) ==
    /\ req.op = None
    /\ req' = [op |-> "monodromy", rule_str |-> rule_str] @@ ComputeMonodromy(rule_str)
    /\ calls' = calls + 1
    /\ UNCHANGED <<engineVars, np_rng, analyzer, builds, threads>>

\* h0, h1 = analyzer._compute_cohomology_sparse(delta0) for the delta0 of an
\* h x w grid, svds behaving as the outcome says
CallComputeCohomology(h, w, svds) ==
    /\ req.op = None
    /\ LET delta0 == BuildCoboundarySparse(h, w)
       IN req' = [op |-> "cohomology", h |-> h, w |-> w,
                  m |-> delta0.shape[1], n |-> delta0.shape[2], svds |-> svds]
                 @@ ComputeCohomologySparse(delta0, svds)
    /\ calls' = calls + 1
    /\ UNCHANGED <<engineVars, np_rng, analyzer, builds, threads>>

\* spectral_gap, effective_resistance, eigenvalues =
\* analyzer._compute_spectral_properties_sparse(L) for the L of an h x w
\* grid, eigsh behaving as the outcome says
CallComputeSpectralProperties(h, w, eigsh) ==
    /\ req.op = None
    /\ LET L == ComputeGraphLaplacianSparse(BuildAdjacencySparse(h, w))
       IN req' = [op |-> "spectral", h |-> h, w |-> w, n |-> L.shape[1],
                  eigsh |-> eigsh]
                 @@ ComputeSpectralPropertiesSparse(L, eigsh)
    /\ calls' = calls + 1
    /\ UNCHANGED <<engineVars, np_rng, analyzer, builds, threads>>

\* harmonic_overlap, gradient_norm = analyzer._compute_hodge_decomposition(f, L)
\* for f = grid.flatten() and the L of the grid's shape, eigsh behaving as
\* the outcome says
CallComputeHodgeDecomposition(f_grid, eigsh) ==
    /\ req.op = None
    /\ LET L == ComputeGraphLaplacianSparse(
                    BuildAdjacencySparse(Height(f_grid), Width(f_grid)))
       IN req' = [op |-> "hodge", f_grid |-> f_grid, n |-> L.shape[1],
                  eigsh |-> eigsh]
                 @@ ComputeHodgeDecomposition(Flatten(f_grid), L, eigsh)
    /\ calls' = calls + 1
    /\ UNCHANGED <<engineVars, np_rng, analyzer, builds, threads>>

\* the structures of an h x w grid are built on a fresh analyzer
CallBuildStructures(h, w) ==
    /\ req.op = None
    /\ req' = [op |-> "build", h |-> h, w |-> w] @@ BuildStructures(h, w)
    /\ calls' = calls + 1
    /\ UNCHANGED <<engineVars, np_rng, analyzer, builds, threads>>

\* record = analyzer[a].analyze(rule_str), analyzer[a] being
\* SheafAnalyzer(grid_size, steps) with the default simulator
CallAnalyze(a, grid_size, steps, rule_str, svds, eigsh_spectral, eigsh_hodge) ==
    /\ req.op = None
    /\ \E r \in {Analyze(analyzer[a], grid_size, steps, rule_str,
                         svds, eigsh_spectral, eigsh_hodge)} :
          /\ analyzer' = [analyzer EXCEPT ![a] = r.self]
          /\ np_rng' = r.rng
          /\ req' = [op |-> "analyze", a |-> a, grid_size |-> grid_size,
                     steps |-> steps, rule_str |-> rule_str, svds |-> svds,
                     eigsh_spectral |-> eigsh_spectral, eigsh_hodge |-> eigsh_hodge,
                     result |-> r.result, grid |-> r.grid,
                     record |-> IF r.result = "ok" THEN r.record ELSE None]
    /\ calls' = calls + 1
    /\ UNCHANGED <<engineVars, builds, threads>>

\* harmonic_overlap, gradient_norm = analyzer._compute_hodge_decomposition(f, L)
\* for a signal f of any length and the L of an h x w grid, eigsh behaving as
\* the outcome says
CallComputeHodgeOnSignal(f, h, w, eigsh) ==
    /\ req.op = None
    /\ LET L == ComputeGraphLaplacianSparse(BuildAdjacencySparse(h, w))
       IN req' = [op |-> "hodge_signal", f |-> f, h |-> h, w |-> w,
                  n |-> L.shape[1], eigsh |-> eigsh]
                 @@ ComputeHodgeDecomposition(f, L, eigsh)
    /\ calls' = calls + 1
    /\ UNCHANGED <<engineVars, np_rng, analyzer, builds, threads>>

\* no simulate call has begun; the caller holds array 1
IdleSim(caller_grid) ==
    [op |-> "idle", heap |-> <<caller_grid>>, history |-> <<>>, t |-> 0,
     steps |-> 0, current_grid |-> 0, custom_grid |-> 0, init_condition |-> None]

\* next = engine.step(grid) on the caller's own array, the result kept
StepCallerGrid ==
    /\ engine.state = "ok"
    /\ sim.op \in {"idle", "returned"}
    /\ gen < MaxGen
    /\ LET next_grid == StepResult(sim.heap, 1)
       IN sim' = [sim EXCEPT !.heap = WriteArray(@, next_grid,
                      StepGrid(engine.born, engine.survive, sim.heap[1]))]
    /\ gen' = gen + 1
    /\ UNCHANGED <<engine, grid, prev_grid, np_rng, sheafVars, threads>>

\* simulate up to the loop: grid = self.init_grid(...); history = np.zeros(...);
\* history[0] = grid; current_grid = grid.  The caller passes its array 1 as
\* custom_grid when pass_grid, and the shape of that array as height and width.
SimulateBegin(steps, init_condition, density, pass_grid) ==
    /\ engine.state = "ok"
    /\ sim.op = "idle"
    /\ LET height == Height(sim.heap[1])
           width == Width(sim.heap[1])
           custom_grid == IF pass_grid THEN 1 ELSE 0
           init == InitGrid(height, width, init_condition, density,
                            IF pass_grid THEN sim.heap[1] ELSE NoGrid, np_rng)
           g == IF init_condition = "custom" /\ pass_grid
                THEN InitGridResult(sim.heap, custom_grid)
                ELSE NewArray(sim.heap)
           heap1 == WriteArray(sim.heap, g, init.grid)
       IN /\ sim' = IF steps = 0
                    THEN [sim EXCEPT !.op = "IndexError", !.heap = heap1,
                                     !.custom_grid = custom_grid,
                                     !.init_condition = init_condition]
                    ELSE [op |-> "running", heap |-> heap1,
                          history |-> StoreFrame(ZeroTensor(steps, height, width), 0, heap1[g]),
                          t |-> 1, steps |-> steps, current_grid |-> g,
                          custom_grid |-> custom_grid, init_condition |-> init_condition]
          /\ np_rng' = init.rng
    /\ UNCHANGED <<engine, grid, prev_grid, gen, sheafVars, threads>>

\* one iteration of "for t in range(1, steps)": next_grid = self.step(current_grid);
\* history[t] = next_grid; current_grid = next_grid
SimulateIterate ==
    /\ sim.op = "running"
    /\ sim.t < sim.steps
    /\ LET next_grid == StepResult(sim.heap, sim.current_grid)
           heap1 == WriteArray(sim.heap, next_grid,
                       StepGrid(engine.born, engine.survive, sim.heap[sim.current_grid]))
       IN sim' = [sim EXCEPT !.heap = heap1,
                             !.history = StoreFrame(@, sim.t, heap1[next_grid]),
                             !.current_grid = next_grid,
                             !.t = @ + 1]
    /\ UNCHANGED <<engine, grid, prev_grid, gen, np_rng, sheafVars, threads>>

\* return history
SimulateReturn ==
    /\ sim.op = "running"
    /\ sim.t = sim.steps
    /\ sim' = [sim EXCEPT !.op = "returned"]
    /\ UNCHANGED <<engine, grid, prev_grid, gen, np_rng, sheafVars, threads>>

\* Thread t runs analyzer[1]._get_cached_structures(h, w) statement by
\* statement; every read and write of a cache field is one step, and the
\* threads interleave between steps.

\* size_key = h * 10000 + w; if self._cached_size != size_key
GetCheckSize(t) ==
    /\ threads[t].pc = "check"
    /\ threads' = [threads EXCEPT ![t].pc =
                      IF analyzer[1].cached_size # SizeKey(threads[t].h, threads[t].w)
                      THEN "build_adj" ELSE "load_adj"]
    /\ UNCHANGED <<engineVars, np_rng, sheafVars>>

\* self._cached_adj = self._build_adjacency_sparse(h, w)
GetBuildAdj(t) ==
    /\ threads[t].pc = "build_adj"
    /\ analyzer' = [analyzer EXCEPT ![1].cached_adj =
                       BuildAdjacencySparse(threads[t].h, threads[t].w)]
    /\ threads' = [threads EXCEPT ![t].pc = "build_laplacian"]
    /\ UNCHANGED <<engineVars, np_rng, req, builds, calls>>

\* self._cached_laplacian = self._compute_graph_laplacian_sparse(self._cached_adj)
GetBuildLaplacian(t) ==
    /\ threads[t].pc = "build_laplacian"
    /\ analyzer' = [analyzer EXCEPT ![1].cached_laplacian =
                       ComputeGraphLaplacianSparse(analyzer[1].cached_adj)]
    /\ threads' = [threads EXCEPT ![t].pc = "build_delta0"]
    /\ UNCHANGED <<engineVars, np_rng, req, builds, calls>>

\* self._cached_delta0, _ = self._build_coboundary_sparse(h, w)
GetBuildDelta0(t) ==
    /\ threads[t].pc = "build_delta0"
    /\ analyzer' = [analyzer EXCEPT ![1].cached_delta0 =
                       BuildCoboundarySparse(threads[t].h, threads[t].w)]
    /\ threads' = [threads EXCEPT ![t].pc = "set_size"]
    /\ UNCHANGED <<engineVars, np_rng, req, builds, calls>>

\* self._cached_size = size_key
GetSetSize(t) ==
    /\ threads[t].pc = "set_size"
    /\ analyzer' = [analyzer EXCEPT ![1].cached_size =
                       SizeKey(threads[t].h, threads[t].w)]
    /\ threads' = [threads EXCEPT ![t].pc = "load_adj"]
    /\ UNCHANGED <<engineVars, np_rng, req, builds, calls>>

\* return self._cached_adj, ...: the first attribute is read
GetLoadAdj(t) ==
    /\ threads[t].pc = "load_adj"
    /\ threads' = [threads EXCEPT ![t].adj = analyzer[1].cached_adj,
                                  ![t].pc = "load_laplacian"]
    /\ UNCHANGED <<engineVars, np_rng, sheafVars>>

\* return ..., self._cached_laplacian, ...: the second attribute is read
GetLoadLaplacian(t) ==
    /\ threads[t].pc = "load_laplacian"
    /\ threads' = [threads EXCEPT ![t].laplacian = analyzer[1].cached_laplacian,
                                  ![t].pc = "load_delta0"]
    /\ UNCHANGED <<engineVars, np_rng, sheafVars>>

\* return ..., self._cached_delta0: the third attribute is read and the
\* tuple is returned
GetLoadDelta0(t) ==
    /\ threads[t].pc = "load_delta0"
    /\ threads' = [threads EXCEPT ![t].delta0 = analyzer[1].cached_delta0,
                                  ![t].pc = "returned"]
    /\ UNCHANGED <<engineVars, np_rng, sheafVars>>

\* next_states = MultiwayTuringSystem(rule).step(state)
CallTMStep(rule, state) ==
    /\ req.op = None
    /\ req' = [op |-> "tm_step", rule |-> rule, state |-> state,
               returned |-> StepTM(rule, state)]
    /\ calls' = calls + 1
    /\ UNCHANGED <<engineVars, np_rng, analyzer, builds, threads>>

\* MultiwayTuringSystem(rule).evolve(initial_state, steps) up to its loop:
\* history = {0: [initial_state]}; current_layer = {initial_state}.
\* history[t] is kept at index t + 1; returned collects, for the last
\* iteration, <<s, q, n>> for each state s stepped and each n = step(s)[q]
EvolveBegin(rule, initial_state, steps) ==
    /\ req.op = None
    /\ req' = [op |-> "evolve", rule |-> rule, steps |-> steps, t |-> 0,
               history |-> <<<<initial_state>>>>,
               current_layer |-> {initial_state},
               returned |-> {}]
    /\ calls' = calls + 1
    /\ UNCHANGED <<engineVars, np_rng, analyzer, builds, threads>>

\* one iteration of "for t in range(1, steps + 1)": every state of the layer
\* is stepped, next_layer collects the outcomes, history[t] = list(next_layer),
\* and the loop is left when the layer is empty
EvolveIterate ==
    /\ req.op = "evolve"
    /\ req.t < req.steps
    /\ req.current_layer # {}
    /\ LET returned == UNION {{<<s, q, StepTM(req.rule, s)[q]>> :
                                   q \in 1..Len(StepTM(req.rule, s))} :
                                 s \in req.current_layer}
           next_layer == {r[3] : r \in returned}
       IN req' = [req EXCEPT !.t = @ + 1,
                             !.history = Append(@, ListOf(next_layer)),
                             !.current_layer = next_layer,
                             !.returned = returned]
    /\ UNCHANGED <<engineVars, np_rng, analyzer, builds, calls, threads>>

\* return history
EvolveReturn ==
    /\ req.op = "evolve"
    /\ req.t = req.steps \/ req.current_layer = {}
    /\ req' = [req EXCEPT !.op = "evolved"]
    /\ UNCHANGED <<engineVars, np_rng, analyzer, builds, calls, threads>>

\* particles = ParticleMiner(rule_str).mine_grid(g, steps) on a new miner;
\* seed names the pattern the caller put on the grid
CallMineGrid(rule_str, seed, g, steps) ==
    /\ req.op = None
    /\ \E r \in {MineGrid(<<>>, rule_str, g, steps)} :
          req' = [op |-> "mine_grid", rule_str |-> rule_str, seed |-> seed,
                  g |-> g, steps |-> steps, result |-> r.result,
                  history |-> r.history, particles |-> r.found_particles]
    /\ calls' = calls + 1
    /\ UNCHANGED <<engineVars, np_rng, analyzer, builds, threads>>

----------------------------------------------------------------------------
(* Specification of rule parsing: any rule string is handed to the        *)
(* constructor.                                                            *)

RuleChars == {"0", "2", "3", "8", "9", "x"}

RECURSIVE SeqsUpTo(_, _)
SeqsUpTo(S, n) ==
    IF n = 0 THEN {<<>>}
    ELSE LET shorter == SeqsUpTo(S, n - 1)
         IN shorter \cup {Append(s, c) : s \in {t \in shorter : Len(t) = n - 1}, c \in S}

RuleStrings ==
    {<<bp>> \o bd \o <<"/">> \o <<sp>> \o sd :
        bp \in {"B", "b"}, sp \in {"S", "s"},
        bd \in SeqsUpTo(RuleChars, MaxDigits), sd \in SeqsUpTo(RuleChars, MaxDigits)}

Unbuilt == [state |-> "unbuilt", rule_str |-> <<>>, born |-> {}, survive |-> {}]

InitParse ==
    /\ engine = Unbuilt
    /\ grid = NoGrid
    /\ prev_grid = NoGrid
    /\ gen = 0
    /\ sim = NoSim
    /\ np_rng = 0
    /\ NoSheaf

NextParse == \E rs \in RuleStrings : New(rs)

SpecParse == InitParse /\ [][NextParse]_vars

----------------------------------------------------------------------------
(* Specification of step: an engine built from a rule, stepping a grid.    *)

EngineRules ==
    { <<"B", "3", "/", "S", "2", "3">>,
      <<"B", "/", "S">>,
      <<"B", "1", "3", "5", "7", "/", "S", "1", "3", "5", "7">>,
      <<"B", "0", "2", "4", "6", "8", "/", "S", "0", "2", "4", "6", "8">> }

InitStep ==
    /\ engine \in {NewEngine(rs) : rs \in EngineRules}
    /\ grid \in Grids(MaxCells)
    /\ prev_grid = NoGrid
    /\ gen = 0
    /\ sim = NoSim
    /\ np_rng = 0
    /\ NoSheaf

NextStep == Step

SpecStep == InitStep /\ [][NextStep]_vars

----------------------------------------------------------------------------
(* Specification of simulate: an engine built from a rule, one simulate    *)
(* call with any initializer.                                              *)

InitConditions == {"random", "custom", "dense"}

\* densities in percent: the default 0.5 and the analyzer's 0.3
Densities == {30, 50}

InitSimulate ==
    /\ engine \in {NewEngine(rs) : rs \in EngineRules}
    /\ grid = NoGrid
    /\ prev_grid = NoGrid
    /\ gen = 0
    /\ sim = NoSim
    /\ np_rng \in 0..MaxSeed
    /\ NoSheaf

NextSimulate ==
    \E s \in Shapes(MaxSimCells), steps \in 0..MaxSteps :
        \/ \E cg \in GridsOfShape(s[1], s[2]) :
              CallSimulate(s[1], s[2], steps, "custom", 50, cg)
        \/ \E d \in Densities : CallSimulate(s[1], s[2], steps, "random", d, NoGrid)
        \/ \E ic \in {"custom", "dense"} : CallSimulate(s[1], s[2], steps, ic, 50, NoGrid)

SpecSimulate == InitSimulate /\ [][NextSimulate]_vars

----------------------------------------------------------------------------
(* Specification of the glider run: the B3/S23 engine simulates a torus    *)
(* whose only live cells are one glider, placed anywhere.                  *)

\* glider = np.array([[0, 1, 0], [0, 0, 1], [1, 1, 1]])
Glider == <<<<0, 1, 0>>, <<0, 0, 1>>, <<1, 1, 1>>>>

\* grid = np.zeros((n, n)); grid[r:r+3, c:c+3] = glider, wrapping at the edges
GliderAt(r, c, n) ==
    [i \in 0..(n - 1) |-> [j \in 0..(n - 1) |->
        IF (i - r) % n < 3 /\ (j - c) % n < 3
        THEN Glider[((i - r) % n) + 1][((j - c) % n) + 1] ELSE 0]]

LifeRule == <<"B", "3", "/", "S", "2", "3">>

InitGlider ==
    /\ engine = NewEngine(LifeRule)
    /\ grid = NoGrid
    /\ prev_grid = NoGrid
    /\ gen = 0
    /\ sim = NoSim
    /\ np_rng = 0
    /\ NoSheaf

NextGlider ==
    \E r, c \in 0..(GliderSize - 1), steps \in 1..GliderSteps :
        CallSimulate(GliderSize, GliderSize, steps, "custom", 50,
                     GliderAt(r, c, GliderSize))

SpecGlider == InitGlider /\ [][NextGlider]_vars

----------------------------------------------------------------------------
(* Specification of the structure cache: one analyzer, a sequence of       *)
(* _get_cached_structures calls with grids of side 3 and more and with the *)
(* one- and two-node grids.                                                *)

CacheShapes ==
    {s \in (1..MaxDim) \X (1..MaxDim) : (s[1] >= 3 /\ s[2] >= 3) \/ s[1] * s[2] <= 2}

NoEngine ==
    /\ engine = Unbuilt
    /\ grid = NoGrid
    /\ prev_grid = NoGrid
    /\ gen = 0
    /\ sim = NoSim

InitCacheOver(shapes) ==
    /\ NoEngine
    /\ np_rng = 0
    /\ analyzer = [a \in {1} |-> FreshAnalyzer]
    /\ req = NoReq
    /\ builds = [s \in shapes |-> 0]
    /\ calls = 0
    /\ threads = <<>>

InitCache == InitCacheOver(CacheShapes)

NextCache == \E s \in CacheShapes : CallGetCachedStructures(1, s[1], s[2])

SpecCache == InitCache /\ [][NextCache]_vars

\* shapes whose size keys collide, and three small ones
WideShapes == {<<1, 10001>>, <<2, 1>>, <<1, 1>>, <<1, 2>>, <<3, 3>>}

InitCacheWide == InitCacheOver(WideShapes)

NextCacheWide == \E s \in WideShapes : CallGetCachedStructures(1, s[1], s[2])

SpecCacheWide == InitCacheWide /\ [][NextCacheWide]_vars

----------------------------------------------------------------------------
(* Specification of two concurrent analyses: two threads, each calling     *)
(* analyze on its own SheafAnalyzer built with the default simulator.      *)

Threads == {1, 2}

NoRecord == [n_nodes |-> 0, n_edges |-> 0, harmonic_overlap_sq |-> <<0, 0>>]

InitConcurrent ==
    /\ NoEngine
    /\ np_rng \in 0..MaxSeed
    /\ analyzer = [a \in Threads |-> FreshAnalyzer]
    /\ req = NoReq
    /\ builds = <<>>
    /\ calls = 0
    /\ threads \in [Threads -> [pc : {"start"}, rule_str : EngineRules,
                                grid_size : {AnalyzerGridSize}, steps : {AnalyzerSteps},
                                grid : {NoGrid}, record : {NoRecord}]]

NextConcurrent ==
    \E t \in Threads : ThreadSeed(t) \/ ThreadSimulate(t) \/ ThreadFinish(t)

SpecConcurrent == InitConcurrent /\ [][NextConcurrent]_vars

----------------------------------------------------------------------------
(* Specification of the classifier: _classify_sheaf is called on triples   *)
(* of floats around its thresholds.                                        *)

MonodromySamples ==
    {Milli(v) : v \in {-1000, -501, -500, -499, 0, 499, 500, 501, 1000}}
    \cup {TanhOf(-32, 32), TanhOf(17, 32), TanhOf(18, 32), TanhOf(992, 32), NaN}

OverlapSamples ==
    {Milli(v) : v \in {0, 799, 800, 801, 1000}} \cup {SqrtOf(5, 9), SqrtOf(6, 9), NaN}

GapSamples == {Milli(0), Milli(200), Inf}

\* no analyzer method has been called
InitMethod ==
    /\ NoEngine
    /\ np_rng = 0
    /\ analyzer = [a \in {1} |-> FreshAnalyzer]
    /\ req = NoReq
    /\ builds = <<>>
    /\ calls = 0
    /\ threads = <<>>

NextClassify ==
    \E m \in MonodromySamples, o \in OverlapSamples, g \in GapSamples :
        CallClassifySheaf(m, o, g)

SpecClassify == InitMethod /\ [][NextClassify]_vars

----------------------------------------------------------------------------
(* Specification of the monodromy estimate: _compute_monodromy is called   *)
(* on a rule string.                                                       *)

\* the subsequences of a sequence
RECURSIVE SubSeqs(_)
SubSeqs(s) ==
    IF Len(s) = 0 THEN {<<>>}
    ELSE LET rest == SubSeqs(Tail(s))
         IN rest \cup {<<Head(s)>> \o t : t \in rest}

\* rules over the neighbour counts a band of full rows produces, the rule
\* under which every cell lives, and a malformed rule
MonodromyRules ==
    {<<"B">> \o b \o <<"/", "S">> \o s :
        b \in SubSeqs(<<"2", "3", "6">>), s \in SubSeqs(<<"2", "3", "5", "8">>)}
    \cup {<<"B", "0", "1", "2", "3", "4", "5", "6", "7", "8", "/",
            "S", "0", "1", "2", "3", "4", "5", "6", "7", "8">>,
          <<"B", "x", "/", "S">>}

NextMonodromy == \E rule_str \in MonodromyRules : CallComputeMonodromy(rule_str)

SpecMonodromy == InitMethod /\ [][NextMonodromy]_vars

----------------------------------------------------------------------------
(* Specification of the cohomology estimate: _compute_cohomology_sparse is *)
(* called on the coboundary of a grid of any shape, svds doing anything.   *)

AllShapes == (1..MaxDim) \X (1..MaxDim)

NextCohomology ==
    \E s \in AllShapes :
        LET shape == BuildCoboundarySparse(s[1], s[2]).shape
        IN \E svds \in SvdsOutcomes(CohomologyK(shape[1], shape[2])) :
               CallComputeCohomology(s[1], s[2], svds)

SpecCohomology == InitMethod /\ [][NextCohomology]_vars

----------------------------------------------------------------------------
(* Specification of the spectral analysis:                                 *)
(* _compute_spectral_properties_sparse is called on the Laplacian of a     *)
(* grid of any shape.                                                      *)

NextSpectral ==
    \E s \in AllShapes :
        \E eigsh \in EigshOutcomes(SpectralK(s[1] * s[2])) :
            CallComputeSpectralProperties(s[1], s[2], eigsh)

SpecSpectral == InitMethod /\ [][NextSpectral]_vars

----------------------------------------------------------------------------
(* Specification of the Hodge decomposition: _compute_hodge_decomposition  *)
(* is called on the flattened grid of any shape and the Laplacian of that  *)
(* shape.                                                                  *)

NextHodge ==
    \E f_grid \in Grids(MaxHodgeCells) :
        LET n == Height(f_grid) * Width(f_grid)
        IN \E eigsh \in HodgeEigshOutcomes(n, HodgeK(n)) :
               CallComputeHodgeDecomposition(f_grid, eigsh)

SpecHodge == InitMethod /\ [][NextHodge]_vars

----------------------------------------------------------------------------
(* Specification of the graph builders: the structures of a grid of any    *)
(* shape up to MaxBuildDim x MaxBuildDim are built.                        *)

BuildShapes == (1..MaxBuildDim) \X (1..MaxBuildDim)

NextBuild == \E s \in BuildShapes : CallBuildStructures(s[1], s[2])

SpecBuild == InitMethod /\ [][NextBuild]_vars

----------------------------------------------------------------------------
(* Specification of one analysis: analyze is called on an analyzer of grid *)
(* size 1 to AnalyzerGridSize.                                             *)

\* "B/S", Life, the two parity rules, and two rules under which the band of
\* the monodromy estimate grows
AnalyzeRules ==
    EngineRules \cup {<<"B", "2", "/", "S">>, <<"B", "3", "6", "/", "S", "2", "3">>}

NextAnalyze ==
    \E rule_str \in AnalyzeRules, size \in 1..AnalyzerGridSize :
        LET shape == BuildCoboundarySparse(size, size).shape
            n == size * size
        IN \E svds \in AnalyzeSvdsOutcomes(CohomologyK(shape[1], shape[2])),
              eigsh_spectral \in AnalyzeEigshOutcomes(SpectralK(n)),
              eigsh_hodge \in AnalyzeHodgeOutcomes(n, HodgeK(n)) :
               CallAnalyze(1, size, AnalyzerSteps, rule_str,
                           svds, eigsh_spectral, eigsh_hodge)

SpecAnalyze == InitMethod /\ [][NextAnalyze]_vars

----------------------------------------------------------------------------
(* Specification of the Hodge decomposition of a signal of any length:     *)
(* _compute_hodge_decomposition is called on a 0/1 signal and the          *)
(* Laplacian of a grid whose node count may be smaller or larger.          *)

\* the 0/1 signals of length 1 to maxlen, indexed from 0
Signals(maxlen) == UNION {[0..(m - 1) -> {0, 1}] : m \in 1..maxlen}

NextHodgeSignal ==
    \E f \in Signals(MaxSignalLen), s \in Shapes(MaxSignalLen) :
        \E eigsh \in HodgeEigshOutcomes(s[1] * s[2], HodgeK(s[1] * s[2])) :
            CallComputeHodgeOnSignal(f, s[1], s[2], eigsh)

SpecHodgeSignal == InitMethod /\ [][NextHodgeSignal]_vars

----------------------------------------------------------------------------
(* Specification of simulate over arrays with identity: the caller holds   *)
(* one array, steps it, and passes it (or nothing) to one simulate call    *)
(* that runs iteration by iteration.                                       *)

InitSnapshots ==
    /\ engine \in {NewEngine(rs) : rs \in EngineRules}
    /\ grid = NoGrid
    /\ prev_grid = NoGrid
    /\ gen = 0
    /\ sim \in {IdleSim(cg) : cg \in Grids(MaxSimCells)}
    /\ np_rng \in 0..MaxSeed
    /\ NoSheaf

NextSnapshots ==
    \/ StepCallerGrid
    \/ \E steps \in 0..MaxSteps :
          \/ SimulateBegin(steps, "custom", 50, TRUE)
          \/ \E ic \in {"custom", "dense"} : SimulateBegin(steps, ic, 50, FALSE)
          \/ \E d \in Densities : SimulateBegin(steps, "random", d, FALSE)
    \/ SimulateIterate
    \/ SimulateReturn

SpecSnapshots == InitSnapshots /\ [][NextSnapshots]_vars

----------------------------------------------------------------------------
(* Specification of concurrent structure requests: two threads call        *)
(* _get_cached_structures on one new SheafAnalyzer, each with its own      *)
(* shape.                                                                  *)

ThreadShapes == (1..MaxThreadDim) \X (1..MaxThreadDim)

InitSharedCache ==
    /\ NoEngine
    /\ np_rng = 0
    /\ analyzer = [a \in {1} |-> FreshAnalyzer]
    /\ req = NoReq
    /\ builds = <<>>
    /\ calls = 0
    /\ threads \in {th \in [Threads -> [pc : {"check"}, h : 1..MaxThreadDim,
                                        w : 1..MaxThreadDim, adj : {NoMatrix},
                                        laplacian : {NoMatrix}, delta0 : {NoMatrix}]] :
                       \A t, u \in Threads :
                           t # u => <<th[t].h, th[t].w>> # <<th[u].h, th[u].w>>}

NextSharedCache ==
    \E t \in Threads :
        \/ GetCheckSize(t)
        \/ GetBuildAdj(t)
        \/ GetBuildLaplacian(t)
        \/ GetBuildDelta0(t)
        \/ GetSetSize(t)
        \/ GetLoadAdj(t)
        \/ GetLoadLaplacian(t)
        \/ GetLoadDelta0(t)

SpecSharedCache == InitSharedCache /\ [][NextSharedCache]_vars

----------------------------------------------------------------------------
(* Specification of the multiway Turing system: step is called on any      *)
(* state, canonical or not, and evolve is run layer by layer from a tape   *)
(* with the head on its first cell.                                        *)

TMColors == {0, 1}
TMStates == {0, 1}

\* every <<write_color, move_dir, new_state>>
AllOutcomes == TMColors \X {-1, 1} \X TMStates

\* Wolfram codes of (2, 2) machines: the least, the greatest and two between
WolframCodes == {0, 1285, 2506, 4095}

\* rules that give every (state, color) the same list of up to MaxOutcomes
\* outcomes (none included), and the deterministic rules of the codes
TMRules ==
    {[sc \in TMStates \X TMColors |-> outcomes] :
        outcomes \in SeqsUpTo(AllOutcomes, MaxOutcomes)}
    \cup {FromWolframCode(code, 2, 2) : code \in WolframCodes}

Tapes == SeqsUpTo(TMColors, MaxTape)

NextTuring ==
    \/ \E rule \in TMRules, tape \in Tapes, head_pos \in (-1)..MaxTape, state \in TMStates :
          CallTMStep(rule, TMState(tape, head_pos, state))
    \/ \E rule \in TMRules, tape \in Tapes, steps \in 0..MaxEvolveSteps :
          EvolveBegin(rule, TMState(tape, 0, 0), steps)
    \/ EvolveIterate
    \/ EvolveReturn

SpecTuring == InitMethod /\ [][NextTuring]_vars

----------------------------------------------------------------------------
(* Specification of the miner: mine_grid is called with the B3/S23 rule on *)
(* a square grid holding one pattern, placed anywhere inside the array.    *)

\* the pattern turned by a quarter turn: out[i][j] = in[n - 1 - j][i]
Rot90(pattern) ==
    LET n == Len(pattern)
    IN [i \in 1..n |-> [j \in 1..n |-> pattern[n + 1 - j][i]]]

\* the glider of test_glider_detection and its three turns
MinerGliders == {Glider, Rot90(Glider), Rot90(Rot90(Glider)), Rot90(Rot90(Rot90(Glider)))}

Block == <<<<1, 1>>, <<1, 1>>>>
Blinker == <<<<0, 0, 0>>, <<1, 1, 1>>, <<0, 0, 0>>>>

\* grid = np.zeros((size, size)); grid[r : r + k, c : c + k] = pattern
PlaceAt(pattern, r, c, size) ==
    [i \in 0..(size - 1) |-> [j \in 0..(size - 1) |->
        IF i - r \in 0..(Len(pattern) - 1) /\ j - c \in 0..(Len(pattern) - 1)
        THEN pattern[i - r + 1][j - c + 1] ELSE 0]]

\* steps of test_glider_detection
MineSteps == 20

NextMiner ==
    \E r, c \in 0..(MinerGridSize - 3) :
        \/ \E glider \in MinerGliders :
              CallMineGrid(<<"B", "3", "/", "S", "2", "3">>, "glider",
                           PlaceAt(glider, r, c, MinerGridSize), MineSteps)
        \/ CallMineGrid(<<"B", "3", "/", "S", "2", "3">>, "block",
                        PlaceAt(Block, r, c, MinerGridSize), MineSteps)
        \/ CallMineGrid(<<"B", "3", "/", "S", "2", "3">>, "blinker",
                        PlaceAt(Blinker, r, c, MinerGridSize), MineSteps)

SpecMiner == InitMethod /\ [][NextMiner]_vars

----------------------------------------------------------------------------
(* Properties of the engine.                                               *)

\* the 8 Moore offsets (di, dj)
MooreOffsets == <<<<-1, -1>>, <<-1, 0>>, <<-1, 1>>, <<0, -1>>,
                  <<0, 1>>, <<1, -1>>, <<1, 0>>, <<1, 1>>>>

\* live cells among the 8 Moore neighbours of (i, j), wrapping on both axes
MooreCount(g, i, j) ==
    SumSeq([q \in 1..8 |->
        g[(i + MooreOffsets[q][1]) % Height(g)][(j + MooreOffsets[q][2]) % Width(g)]])

\* C1: step returns the grid in which each cell is 1 exactly when it was 0
\* with a wrapped Moore count in born, or was 1 with that count in survive,
\* and is 0 otherwise.
C1_StepIsOuterTotalistic ==
    gen >= 1 =>
        /\ DOMAIN grid = DOMAIN prev_grid
        /\ \A i \in DOMAIN prev_grid :
              /\ DOMAIN grid[i] = DOMAIN prev_grid[i]
              /\ \A j \in DOMAIN prev_grid[i] :
                    grid[i][j] =
                        IF \/ prev_grid[i][j] = 0 /\ MooreCount(prev_grid, i, j) \in engine.born
                           \/ prev_grid[i][j] = 1 /\ MooreCount(prev_grid, i, j) \in engine.survive
                        THEN 1 ELSE 0

\* a step of a 3x3 grid in which a cell is born and a cell survives, and the
\* wrap-around changes a neighbour count
C1_Witness ==
    /\ gen = 1
    /\ Height(prev_grid) = 3 /\ Width(prev_grid) = 3
    /\ \E i, j \in 0..2 : prev_grid[i][j] = 0 /\ grid[i][j] = 1
    /\ \E i, j \in 0..2 : prev_grid[i][j] = 1 /\ grid[i][j] = 1
    /\ ConvolveNoWrap(prev_grid, Kernel) # Convolve2dSameWrap(prev_grid, Kernel)

C3_GenerationsChain ==
    (sim.op = "simulate" /\ sim.result = "ok") =>
        /\ sim.history[1] =
              InitGrid(sim.height, sim.width, sim.init_condition, sim.density,
                       sim.custom_grid, sim.rng_before).grid
        /\ sim.init_condition = "custom" /\ sim.custom_grid # NoGrid
              => sim.history[1] = sim.custom_grid
        /\ \A t \in 2..Len(sim.history) :
              sim.history[t] = StepGrid(engine.born, engine.survive, sim.history[t - 1])

\* a random start followed by two generations that all differ
C3_Witness ==
    /\ sim.op = "simulate"
    /\ sim.result = "ok"
    /\ sim.init_condition = "random"
    /\ Len(sim.history) = 3
    /\ sim.history[1] # sim.history[2]
    /\ sim.history[2] # sim.history[3]
    /\ sim.history[1] # sim.history[3]

\* a B or S part of the rule string holds a digit outside 0..8
HasOutOfRangeDigit(rule_str) ==
    LET parts == Split(Upper(rule_str))
    IN \E k \in ReadParts(rule_str) :
          \E q \in 1..Len(Tail1(parts[k])) : Tail1(parts[k])[q] = "9"

\* C4: a rule string with a digit outside 0..8 in its B or S part is rejected
\* with an error; the digit never enters born or survive.
C4_OutOfRangeDigitRejected ==
    (engine.state # "unbuilt" /\ HasOutOfRangeDigit(engine.rule_str)) =>
        /\ engine.state = "ValueError"
        /\ 9 \notin engine.born \cup engine.survive

\* g moved by dr rows and dc columns on the torus
Translate(g, dr, dc) ==
    [i \in DOMAIN g |-> [j \in DOMAIN g[i] |->
        g[(i - dr) % Height(g)][(j - dc) % Width(g)]]]

IsTranslateOf(g, g0) ==
    \E dr \in 0..(Height(g0) - 1), dc \in 0..(Width(g0) - 1) : g = Translate(g0, dr, dc)

\* C5: under B3/S23 a lone glider is, after exactly 4 steps, the initial grid
\* moved by one row and one column; after 1, 2 or 3 steps the grid is no
\* translate of the initial grid.
C5_GliderPeriodAndDisplacement ==
    (sim.op = "simulate" /\ sim.result = "ok") =>
        /\ Len(sim.history) >= 5 => sim.history[5] = Translate(sim.custom_grid, 1, 1)
        /\ \A t \in 2..4 :
              t <= Len(sim.history) => ~IsTranslateOf(sim.history[t], sim.custom_grid)

\* a glider that starts across the edge of the torus and has run 4 steps
C5_Witness ==
    /\ sim.op = "simulate"
    /\ sim.result = "ok"
    /\ sim.custom_grid = GliderAt(GliderSize - 1, GliderSize - 2, GliderSize)
    /\ Len(sim.history) = 5
    /\ sim.history[5] = GliderAt(0, GliderSize - 1, GliderSize)

----------------------------------------------------------------------------
(* Properties of the graph structures and their cache.                     *)

\* the triple the last _get_cached_structures call returned: the cache fields
\* of its analyzer at the return
ReturnedAdj == analyzer[req.a].cached_adj
ReturnedLaplacian == analyzer[req.a].cached_laplacian
ReturnedDelta0 == analyzer[req.a].cached_delta0

\* C6: for H, W >= 3 the coboundary built for (H, W) has exactly 4*H*W rows,
\* as many as the one built for (W, H).
C6_EdgeCount ==
    (req.op = "get" /\ req.h >= 3 /\ req.w >= 3) =>
        /\ ReturnedDelta0.shape[1] = 4 * req.h * req.w
        /\ ReturnedDelta0.shape[1] = BuildCoboundarySparse(req.w, req.h).shape[1]

\* the unordered pairs of distinct nodes that adj joins
AdjacentPairs(adj) ==
    {{u, v} : u \in DOMAIN adj.rows, v \in DOMAIN adj.rows} \cap
    {p \in SUBSET (DOMAIN adj.rows) :
        Cardinality(p) = 2 /\ \E u \in p : \E v \in p \ {u} : Entry(adj, u, v) # 0}

\* row e of delta0 holds -1 at one column, +1 at another, and nothing else
IsEdgeRow(row) ==
    /\ Cardinality(DOMAIN row) = 2
    /\ {row[c] : c \in DOMAIN row} = {-1, 1}

\* entry (u, v) of the product of the transpose of delta0 with delta0
GramEntry(delta0, u, v) ==
    SumSeq([e \in 1..Len(delta0.rows) |->
        (IF u \in DOMAIN delta0.rows[e] THEN delta0.rows[e][u] ELSE 0) *
        (IF v \in DOMAIN delta0.rows[e] THEN delta0.rows[e][v] ELSE 0)])

\* C7: for H, W >= 3 the coboundary has exactly one row, holding -1 and +1 at
\* the two endpoints, for each unordered pair of distinct cells adjacent in the
\* adjacency of the same shape, and no other row; and the Laplacian D - A
\* equals the product of the transposed coboundary with the coboundary.
C7_CoboundaryMatchesAdjacency ==
    (req.op = "get" /\ req.h >= 3 /\ req.w >= 3) =>
        /\ \A e \in 1..Len(ReturnedDelta0.rows) : IsEdgeRow(ReturnedDelta0.rows[e])
        /\ {DOMAIN ReturnedDelta0.rows[e] : e \in 1..Len(ReturnedDelta0.rows)}
              = AdjacentPairs(ReturnedAdj)
        /\ Len(ReturnedDelta0.rows) = Cardinality(AdjacentPairs(ReturnedAdj))
        /\ \A u, v \in DOMAIN ReturnedAdj.rows :
              Entry(ReturnedLaplacian, u, v) = GramEntry(ReturnedDelta0, u, v)

\* C8: every _get_cached_structures(h, w) call returns the adjacency, Laplacian
\* and coboundary a fresh build for (h, w) produces.
C8_CacheServesOwnShape ==
    req.op = "get" =>
        /\ ReturnedAdj.shape = <<req.h * req.w, req.h * req.w>>
        /\ ReturnedAdj = BuildAdjacencySparse(req.h, req.w)
        /\ ReturnedLaplacian = ComputeGraphLaplacianSparse(BuildAdjacencySparse(req.h, req.w))
        /\ ReturnedDelta0 = BuildCoboundarySparse(req.h, req.w)

----------------------------------------------------------------------------
(* Properties of concurrent analyses.                                      *)

\* the record analyze(rule_str) returns on a fresh analyzer when no other
\* thread runs
RecordAlone(rule_str, size, steps) ==
    LET r == DefaultSimulatorRun(rule_str, size, steps, NpSeed(42))
    IN AnalyzeRecord(GetCachedStructures(FreshAnalyzer, Height(r.grid), Width(r.grid)).self,
                     r.grid)

\* C10: two analyses interleaved in two threads, each on its own analyzer with
\* the default simulator, each return the record they return when run alone.
C10_ConcurrentRecordEqualsAlone ==
    \A t \in DOMAIN threads :
        threads[t].pc = "done" =>
            threads[t].record =
                RecordAlone(threads[t].rule_str, threads[t].grid_size, threads[t].steps)

----------------------------------------------------------------------------
(* Properties of the classifier.                                           *)

Labels == {"resonant-frozen", "resonant-active", "tense", "mixed"}

----------------------------------------------------------------------------
(* Properties of the monodromy estimate.                                   *)

\* a _compute_monodromy call has returned
MonodromyReturned == req.op = "monodromy" /\ req.result = "ok"

\* C13: with ratio = final_mass / initial_mass of the seeded band, the
\* monodromy index is exactly 0.0 when 0.9 <= ratio <= 1.1, is
\* tanh(ratio - 1) and positive when ratio > 1.1, is tanh(ratio - 1) and
\* negative when ratio < 0.9, and always lies in [-1, 1].
C13_MonodromyOfRatio ==
    MonodromyReturned =>
        LET im == req.initial_mass
            fm == req.final_mass
            m == req.monodromy
        IN /\ im = grid_width
           /\ (9 * im <= 10 * fm /\ 10 * fm <= 11 * im) => IsZero(m)
           /\ 10 * fm > 11 * im => m = TanhOf(fm - im, im) /\ IsPositive(m)
           /\ 10 * fm < 9 * im => m = TanhOf(fm - im, im) /\ IsNegative(m)
           /\ InUnitBall(m)

\* a rule under which the band keeps its mass: ratio 1, index 0.0
C13_Witness ==
    /\ MonodromyReturned
    /\ req.final_mass = req.initial_mass
    /\ req.monodromy = Milli(0)

\* C20: for every rule whose growth ratio lies outside the tolerance band the
\* monodromy index is strictly between -1 and +1, never exactly -1 or +1.
C20_MonodromyNeverSaturates ==
    (MonodromyReturned /\ (10 * req.final_mass > 11 * req.initial_mass
                           \/ 10 * req.final_mass < 9 * req.initial_mass)) =>
        ~IsOne(req.monodromy) /\ ~IsMinusOne(req.monodromy)

----------------------------------------------------------------------------
(* Properties of the cohomology estimate.                                  *)

\* C16: for every grid with at least one node and every outcome of the
\* singular-value solver, the cohomology estimate returns integers
\* h0 = max(1, n_nodes - rank) and h1 = max(0, n_edges - rank), so h0 >= 1
\* and h1 >= 0, and raises nothing.
C16_CohomologyDimsClamped ==
    req.op = "cohomology" =>
        /\ req.result = "ok"
        /\ req.n = req.h * req.w
        /\ req.h0 \in Int /\ req.h1 \in Int
        /\ req.h0 = (IF req.n - req.rank > 1 THEN req.n - req.rank ELSE 1)
        /\ req.h1 = (IF req.m - req.rank > 0 THEN req.m - req.rank ELSE 0)
        /\ req.h0 >= 1
        /\ req.h1 >= 0

\* svds returned k significant singular values of a delta0 with at least as
\* many rows as columns: the scaled rank is n_nodes and h0 is held at 1
C16_Witness ==
    /\ req.op = "cohomology"
    /\ ~req.svds.raised
    /\ Len(req.svds.values) > 0
    /\ req.rank = req.n
    /\ req.h0 = 1

\* C17: when the singular-value solver fails, no error propagates and the
\* rank used is n_nodes - 1, so h0 = 1 and h1 = max(0, n_edges - n_nodes + 1).
C17_SolverFailureFallback ==
    (req.op = "cohomology" /\ req.svds.raised) =>
        /\ req.result = "ok"
        /\ req.rank = req.n - 1
        /\ req.h0 = 1
        /\ req.h1 = (IF req.m - req.n + 1 > 0 THEN req.m - req.n + 1 ELSE 0)

\* svds raised on the coboundary of a grid with more edges than nodes
C17_Witness ==
    /\ req.op = "cohomology"
    /\ req.svds.raised
    /\ req.m > req.n
    /\ req.h1 = req.m - req.n + 1

----------------------------------------------------------------------------
(* Properties of the spectral analysis.                                    *)

\* the graph of the call has no eigenvalue above the tolerance: it is the
\* single node of the 1 x 1 grid, or the solver returned none
NoEigenvalueAboveTol ==
    \/ req.n = 1
    \/ ~req.eigsh.raised /\ \A i \in DOMAIN req.eigsh.values :
                                ~AboveTol(AbsSeq(req.eigsh.values)[i])

\* C15: for a graph with no eigenvalue above the 1e-6 tolerance, in
\* particular the single-node graph of a 1 x 1 grid, the spectral analysis
\* returns spectral_gap = 0.0 and effective_resistance = +infinity, not a
\* fallback constant.
C15_DegenerateSpectrumSentinels ==
    (req.op = "spectral" /\ NoEigenvalueAboveTol) =>
        /\ req.spectral_gap = Micro(0)
        /\ req.effective_resistance = Inf

----------------------------------------------------------------------------
(* Properties of the Hodge decomposition.                                  *)

\* the signal of the call is not zero
NonZeroSignal == \E i \in DOMAIN req.f_grid : \E j \in DOMAIN req.f_grid[i] :
                     req.f_grid[i][j] # 0

\* C14: when the sparse eigen-solver raises inside the Hodge decomposition of
\* a non-zero signal, the decomposition does not raise: it returns a
\* (harmonic_overlap, gradient_norm) pair.
C14_SolverFailureReturnsPair ==
    (req.op = "hodge" /\ req.eigsh.raised /\ NonZeroSignal) =>
        /\ req.result = "ok"
        /\ "harmonic_overlap" \in DOMAIN req
        /\ "gradient_norm" \in DOMAIN req

\* the square of a float, as a fraction <<num, den>>
SquareOf(x) ==
    CASE x.kind = "sqrt" -> <<x.num, x.den>>
      [] x.kind = "milli" -> <<x.v * x.v, 1000000>>

\* the sum of two fractions
FractionSum(a, b) ==
    IF a[2] = b[2] THEN <<a[1] + b[1], a[2]>>
    ELSE <<a[1] * b[2] + b[1] * a[2], a[2] * b[2]>>

\* C19: for every non-zero input signal the Hodge decomposition returns
\* harmonic_overlap in [0, 1] and gradient_norm >= 0 with
\* harmonic_overlap^2 + gradient_norm^2 within 1e-3 of 1, on every return
\* path (small-graph, kernel-projection, smallest-eigenvector,
\* zero-projection).
C19_HodgeOrthogonalDecomposition ==
    (req.op = "hodge" /\ req.result = "ok" /\ NonZeroSignal) =>
        /\ req.harmonic_overlap.kind \in {"sqrt", "milli"}
        /\ req.gradient_norm.kind \in {"sqrt", "milli"}
        /\ LET h2 == SquareOf(req.harmonic_overlap)
               g2 == SquareOf(req.gradient_norm)
               sum == FractionSum(h2, g2)
               diff == sum[1] - sum[2]
           IN /\ h2[1] >= 0 /\ h2[1] <= h2[2]
              /\ g2[1] >= 0
              /\ 1000 * (IF diff < 0 THEN 0 - diff ELSE diff) <= sum[2]

\* a kernel of two eigenvectors, a signal with a part in it and a part
\* outside it
C19_Witness ==
    /\ req.op = "hodge"
    /\ req.result = "ok"
    /\ req.path = "kernel-projection"
    /\ Len(KernelVecs(req.eigsh.values, req.eigsh.vecs)) = 2
    /\ req.harmonic_overlap.num > 0
    /\ req.gradient_norm.num > 0

----------------------------------------------------------------------------
(* Properties of the graph builders.                                       *)

\* C18: for every H, W >= 1 the Laplacian L = D - A built for the H x W grid
\* is symmetric, every row of L sums to zero and every off-diagonal entry is
\* <= 0; and every row of the coboundary delta0 sums to zero.
C18_LaplacianAndCoboundaryRows ==
    req.op = "build" =>
        LET L == req.laplacian
            nodes == DOMAIN L.rows
        IN /\ L.shape = <<req.h * req.w, req.h * req.w>>
           /\ nodes = 0..(req.h * req.w - 1)
           /\ \A r \in nodes : \A c \in DOMAIN L.rows[r] :
                 /\ c \in nodes
                 /\ Entry(L, c, r) = L.rows[r][c]
                 /\ c # r => L.rows[r][c] <= 0
           /\ \A r \in nodes : SumFn(L.rows[r]) = 0
           /\ \A e \in DOMAIN req.delta0.rows : SumFn(req.delta0.rows[e]) = 0

\* a grid with a side of 2, where a pair of cells is joined more than once:
\* an off-diagonal entry below -1, and a coboundary with rows
C18_Witness ==
    /\ req.op = "build"
    /\ req.h = 2 /\ req.w = 3
    /\ \E r \in DOMAIN req.laplacian.rows : \E c \in DOMAIN req.laplacian.rows[r] :
           c # r /\ req.laplacian.rows[r][c] < -1
    /\ Len(req.delta0.rows) > 0

----------------------------------------------------------------------------
(* Properties of analyze.                                                  *)

\* C11: analyzing rule "B/S" yields a final live-cell count of 0, a
\* monodromy_index of exactly 0.0 and the sheaf_type label "mixed".
C11_EmptyRuleIsMixed ==
    (req.op = "analyze" /\ req.rule_str = <<"B", "/", "S">>) =>
        /\ req.result = "ok"
        /\ LiveCount(req.grid) = 0
        /\ IsZero(req.record.monodromy_index)
        /\ req.record.sheaf_type = "mixed"

----------------------------------------------------------------------------
(* C21: the digits of a rule string are collected into sets.               *)

CharsOf(s) == {s[k] : k \in 1..Len(s)}

\* the rule string is of the form B<digits>/S<digits>
WellFormedRule(rule_str) ==
    LET parts == Split(rule_str)
    IN /\ Len(parts) = 2
       /\ StartsWith(parts[1], "B") /\ StartsWith(parts[2], "S")
       /\ CharsOf(Tail1(parts[1])) \subseteq DigitChars
       /\ CharsOf(Tail1(parts[2])) \subseteq DigitChars

\* the rule strings B<bd>/S<sd> that list the same digits as rule_str, in
\* any order and with any repetition
SameDigitRules(rule_str) ==
    LET parts == Split(rule_str)
        digitSeqs == SeqsUpTo(RuleChars \cap DigitChars, MaxDigits)
    IN {<<"B">> \o bd \o <<"/", "S">> \o sd :
           bd \in {t \in digitSeqs : CharsOf(t) = CharsOf(Tail1(parts[1]))},
           sd \in {t \in digitSeqs : CharsOf(t) = CharsOf(Tail1(parts[2]))}}

TwoByTwo == GridsOfShape(2, 2)

\* C21: parsing B<digits>/S<digits> is insensitive to the order of the digits
\* within each set: every rule string listing the same birth digits and the
\* same survival digits builds an engine with equal born and survive sets,
\* whose step agrees on every grid; "B/S" parses to two empty sets.
C21_DigitOrderIrrelevant ==
    (engine.state # "unbuilt" /\ WellFormedRule(engine.rule_str)) =>
        /\ engine.state = "ok"
        /\ \A other \in SameDigitRules(engine.rule_str) :
              /\ NewEngine(other).state = "ok"
              /\ NewEngine(other).born = engine.born
              /\ NewEngine(other).survive = engine.survive
              /\ \A g \in TwoByTwo :
                    StepGrid(NewEngine(other).born, NewEngine(other).survive, g)
                        = StepGrid(engine.born, engine.survive, g)
        /\ (engine.rule_str = <<"B", "/", "S">> =>
                engine.born = {} /\ engine.survive = {})

\* C21 witness: "B32/S83" was parsed, and "B23/S38" lists the same digits in
\* another order
C21_Witness ==
    /\ engine.state = "ok"
    /\ engine.rule_str = <<"B", "3", "2", "/", "S", "8", "3">>
    /\ engine.born = {2, 3} /\ engine.survive = {3, 8}
    /\ <<"B", "2", "3", "/", "S", "3", "8">> \in SameDigitRules(engine.rule_str)

----------------------------------------------------------------------------
(* C22: step is a function of the rule and the grid passed.                *)

\* C22: for every valid rule and grid, a call of step returns a grid of 0s
\* and 1s with the height and width of the grid passed, and that grid is the
\* one a newly built engine of the same rule returns for the same argument,
\* whatever calls were made before; the call draws nothing from the random
\* generator and leaves the engine as it was.
C22_StepTotalDeterministic ==
    [][gen' = gen + 1 =>
          /\ grid' \in GridsOfShape(Height(grid), Width(grid))
          /\ grid' = StepGrid(NewEngine(engine.rule_str).born,
                              NewEngine(engine.rule_str).survive, grid)
          /\ np_rng' = np_rng
          /\ engine' = engine]_vars

\* C22 witness: a second call of step on an engine, on a grid that is not
\* square and differs from the grid of the first call, with a different result
C22_Witness ==
    /\ gen = 2
    /\ Height(grid) # Width(grid)
    /\ grid # prev_grid
    /\ StepGrid(engine.born, engine.survive, grid) # grid

----------------------------------------------------------------------------
(* C29: init_grid falls back to the single centre dot.                     *)

\* the live cells of a grid, as (row, column) pairs
LiveCells(g) == {ij \in (DOMAIN g) \X (DOMAIN g[0]) : g[ij[1]][ij[2]] = 1}

C29_WitnessCustom ==
    /\ sim.op = "simulate" /\ sim.init_condition = "custom"
    /\ sim.custom_grid = NoGrid
    /\ sim.result = "ok"
    /\ LiveCells(sim.history[1]) = {<<sim.height \div 2, sim.width \div 2>>}

----------------------------------------------------------------------------
(* C27: the label does not look at the spectral gap.                       *)

\* C27: the sheaf_type label does not depend on spectral_gap: two consecutive
\* _classify_sheaf calls with the same monodromy and the same harmonic
\* overlap return the same label, whatever their spectral gaps.
C27_LabelIgnoresSpectralGap ==
    [][(/\ req.op = "classify" /\ req'.op = "classify"
        /\ req'.monodromy = req.monodromy
        /\ req'.harmonic_overlap = req.harmonic_overlap) =>
            req'.label = req.label]_vars

\* C27 witness: the second call, with a monodromy above 0.5, an overlap
\* above 0.8 and the spectral gap inf, returned resonant-frozen (the first
\* call was any triple, the same two values with another gap among them)
C27_Witness ==
    /\ req.op = "classify"
    /\ calls = 2
    /\ GtMilli(req.monodromy, 500) /\ GtMilli(req.harmonic_overlap, 800)
    /\ req.spectral_gap = Inf
    /\ req.label = "resonant-frozen"

\* C27 for analyze: the label of a record is the one _classify_sheaf gives
\* its monodromy_index and harmonic_overlap with any spectral gap
C27_RecordLabelFromTwoFields ==
    (req.op = "analyze" /\ req.result = "ok") =>
        \A g \in GapSamples :
            req.record.sheaf_type =
                ClassifySheaf(req.record.monodromy_index, req.record.harmonic_overlap, g)

----------------------------------------------------------------------------
(* C26: the number of generations behind the monodromy estimate.           *)

\* step applied n times to g
RECURSIVE StepTimes(_, _, _, _)
StepTimes(born, survive, g, n) ==
    IF n = 0 THEN g ELSE StepTimes(born, survive, StepGrid(born, survive, g), n - 1)

\* the live count of the seeded line after n applications of the rule's step
BandMassAfter(rule_str, n) ==
    LiveCount(StepTimes(NewEngine(rule_str).born, NewEngine(rule_str).survive, CycleGrid, n))

----------------------------------------------------------------------------
(* C24: a signal of zero norm.                                             *)

\* C24: when the signal, after its resize to the node count (truncated when
\* longer, zero-padded when shorter), is all zero, the Hodge decomposition
\* returns (0.0, 0.0) and the eigen-solver is not called.
C24_ZeroSignalShortCircuits ==
    (/\ req.op = "hodge_signal"
     /\ \A i \in 0..(req.n - 1) : i \in DOMAIN req.f => req.f[i] = 0) =>
        /\ req.result = "ok"
        /\ req.harmonic_overlap = Milli(0)
        /\ req.gradient_norm = Milli(0)
        /\ ~req.eigsh_called

\* C24 witness: a signal with a live entry beyond the node count only, on a
\* graph large enough for eigsh to be asked, returned (0.0, 0.0)
C24_Witness ==
    /\ req.op = "hodge_signal"
    /\ Cardinality(DOMAIN req.f) > req.n
    /\ \E i \in DOMAIN req.f : req.f[i] = 1
    /\ HodgeK(req.n) >= 1
    /\ req.eigsh.raised
    /\ req.path = "zero-signal"
    /\ req.harmonic_overlap = Milli(0) /\ req.gradient_norm = Milli(0)

----------------------------------------------------------------------------
(* C23: generations are persistent snapshots.                              *)

\* C23: no step of a step call or of a simulate call changes the content of
\* an array that already exists (the grid passed to step, the caller's
\* custom grid), and no frame of the history stored by an earlier iteration
\* is changed by a later one.
C23_GenerationsArePersistent ==
    [][/\ \A id \in DOMAIN sim.heap :
             id \in DOMAIN sim'.heap /\ sim'.heap[id] = sim.heap[id]
       /\ \A k \in 1..sim.t :
             k \in DOMAIN sim'.history /\ sim'.history[k] = sim.history[k]]_vars

\* C23 witness: the caller stepped its grid, passed it to simulate as custom
\* grid, and simulate returned three frames, each different from the one
\* before; the caller's array still holds frame 0
C23_Witness ==
    /\ sim.op = "returned"
    /\ sim.custom_grid = 1
    /\ gen >= 1
    /\ sim.steps = 3 /\ sim.t = 3
    /\ sim.history[1] = sim.heap[1]
    /\ sim.history[2] # sim.history[1]
    /\ sim.history[3] # sim.history[2]
    /\ sim.current_grid # 1

----------------------------------------------------------------------------
(* C28: one analyzer, two threads, two shapes.                             *)

\* C28: when two threads call _get_cached_structures on the same analyzer
\* with different shapes, then under every interleaving each call returns
\* the adjacency, Laplacian and coboundary built for its own shape.
C28_EachThreadGetsOwnShape ==
    \A t \in Threads :
        threads[t].pc = "returned" =>
            /\ threads[t].adj = BuildAdjacencySparse(threads[t].h, threads[t].w)
            /\ threads[t].laplacian =
                   ComputeGraphLaplacianSparse(BuildAdjacencySparse(threads[t].h, threads[t].w))
            /\ threads[t].delta0 = BuildCoboundarySparse(threads[t].h, threads[t].w)

\* a call returned three structures that were not all built for one shape
C28_MixedTriple ==
    \E t \in Threads :
        /\ threads[t].pc = "returned"
        /\ threads[t].adj.shape[1] # threads[t].laplacian.shape[1]

----------------------------------------------------------------------------
(* C30: the states step returns are canonical.                             *)

\* the tape is empty and the head at 0, or the head is on the tape and each
\* end cell is non-zero or under the head
Canonical(s) ==
    \/ s.tape = <<>> /\ s.head_pos = 0
    \/ /\ Len(s.tape) >= 1
       /\ s.head_pos \in 0..(Len(s.tape) - 1)
       /\ s.tape[1] # 0 \/ s.head_pos = 0
       /\ s.tape[Len(s.tape)] # 0 \/ s.head_pos = Len(s.tape) - 1

\* cell i of the two-way infinite tape that s stands for
CellOf(s, i) == IF i \in 0..(Len(s.tape) - 1) THEN s.tape[i + 1] ELSE 0

\* a and b are the same machine state, head and tape content up to a shift
Translated(a, b) ==
    LET d == b.head_pos - a.head_pos
        reach == Len(a.tape) + Len(b.tape) + 1
    IN /\ a.state = b.state
       /\ \A i \in (0 - reach)..reach : CellOf(a, i) = CellOf(b, i + d)

\* the states returned by the step calls of the last operation
ReturnedStates ==
    IF req.op = "tm_step" THEN Elements(req.returned)
    ELSE IF req.op \in {"evolve", "evolved"} THEN {r[3] : r \in req.returned}
    ELSE {}

\* C30: every state returned by step is canonical; returned states that are
\* translates of one another are equal, and each layer of evolve after the
\* first holds every state returned for it exactly once.
C30_StepReturnsCanonicalStates ==
    /\ \A s \in ReturnedStates : Canonical(s)
    /\ \A a, b \in ReturnedStates : Translated(a, b) => a = b
    /\ req.op \in {"evolve", "evolved"} =>
          /\ Len(req.history) = req.t + 1
          /\ \A k \in 2..Len(req.history) :
                \A i, j \in 1..Len(req.history[k]) :
                    Translated(req.history[k][i], req.history[k][j]) => i = j
          /\ req.t >= 1 => Elements(req.history[req.t + 1]) = ReturnedStates

\* C30 witness: in the second layer of an evolve run, two different states
\* of the first layer stepped to the same state, whose tape is not empty and
\* has a zero end cell under the head; the layer holds it once
C30_Witness ==
    /\ req.op = "evolved"
    /\ req.t = 2
    /\ \E r1, r2 \in req.returned :
          /\ r1[1] # r2[1]
          /\ r1[3] = r2[3]
          /\ r1[3].tape # <<>>
          /\ r1[3].tape[1] = 0 /\ r1[3].head_pos = 0
    /\ Cardinality(req.returned) > Len(req.history[3])

----------------------------------------------------------------------------
(* C25: what the miner registers.                                          *)

\* a particle with a non-zero displacement named "Glider" or "Spaceship ..."
IsMovingParticle(particle) ==
    /\ particle.dx # 0 \/ particle.dy # 0
    /\ particle.name.text \in {"Glider", "Spaceship (P, v=(,))"}

\* the glider case: mining a grid that holds one glider registers a moving
\* particle
GliderRegistered ==
    (req.op = "mine_grid" /\ req.seed = "glider") =>
        \E q \in 1..Len(req.particles) : IsMovingParticle(req.particles[q])

\* the components of the last frame that _analyze_history traces
TracedComponents ==
    LET components == Label(req.history[Len(req.history)])
    IN IF Len(components) > 50 THEN {}
       ELSE {comp \in Elements(components) :
                LET pattern == CropPattern(req.history[Len(req.history)], comp)
                IN Height(pattern) * Width(pattern) <= 100}

\* the general case: every component of the last frame that is first found
\* again p frames earlier at offset (dx, dy) is registered with period p and
\* displacement (dx, dy)
ComponentsRegistered ==
    (req.op = "mine_grid" /\ req.result = "ok") =>
        \A comp \in TracedComponents :
            LET pattern == CropPattern(req.history[Len(req.history)], comp)
                box == BoundingBox(comp)
                trace == TraceBack(pattern, req.history, req.steps, box.rmin, box.cmin)
            IN trace.match_found =>
                  \E q \in 1..Len(req.particles) :
                      /\ req.particles[q].pattern = pattern
                      /\ req.particles[q].period = trace.period
                      /\ req.particles[q].dx = trace.dx
                      /\ req.particles[q].dy = trace.dy

\* C25: for rule "B3/S23" and a grid whose only live cells form one glider,
\* mine_grid(grid, steps=20) registers a particle whose displacement is
\* non-zero and whose name is "Glider" or contains "Spaceship"; and every
\* final-frame component first found again p frames earlier at offset
\* (dx, dy) is registered with period p and that displacement.
C25_MinerRegistersGlider == GliderRegistered /\ ComponentsRegistered

====
